---- MODULE Spec2Model ----
(***************************************************************************)
(* Model of the DBnomics GitLab-CI dashboard generator                     *)
(* (src/dashboard/generate-dashboard.py) and, at the end of the module, of *)
(* four of the provisioning scripts: configure-ci-for-provider.py          *)
(* (parse_time), create-repositories-for-provider.py, ls-providers.py and  *)
(* the two trigger-*-job-for-provider.py.                                  *)
(*                                                                         *)
(* Text (job traces, project names, provider slugs) is a sequence of       *)
(* one-character strings, so that the regular expressions and the slicing  *)
(* of the source are computed character by character.                      *)
(***************************************************************************)
EXTENDS Integers, Sequences, FiniteSets, TLC

VARIABLES
    pc,                              \* position of main() (or of a harness)
    args,                            \* parsed command line (global args)
    fetchers_projects,               \* main: list of fetcher projects
    pipeline_schedule_by_fetcher_id, \* main: dict project id -> schedule | None
    jobs_by_fetcher_id,              \* main: dict project id -> {download, convert}
    importer_jobs_with_variables,    \* main: list of (job, job_variables)
    index_jobs_by_provider_slug,     \* main: dict slug -> list of jobs
    tbody,                           \* print_html_dashboard: rows written to tbody_io
    stdout,                          \* what the process has printed on standard output
    error,                           \* the exception that ended the run, or "none"
    log,                             \* the records logged on standard error
    searches,                        \* the queries sent to Solr, in order
    cursor,                          \* loop positions of main(), jobs still to iterate, runs made
    last,                            \* the call the last step made, if any: [fn, arg, ret]
    world,                           \* which of the remote services varies in this run
    gitlab                           \* GitLab as the provisioning scripts see and change it

vars == <<pc, args, fetchers_projects, pipeline_schedule_by_fetcher_id, jobs_by_fetcher_id,
          importer_jobs_with_variables, index_jobs_by_provider_slug, tbody, stdout, error,
          log, searches, cursor, last, world, gitlab>>

\* Python's None, where a dict or an object may stand.
None == [none |-> TRUE]

\* Python's None, where a text may stand (no text holds a string of four characters).
NoneText == <<"None">>

\* Python's None, where a list of jobs may stand (no job is None).
NoneList == <<None>>

(***************************************************************************)
(* Bounds of the model.                                                    *)
(***************************************************************************)
\* Number of chunks a trace of the classification harness is made of.
MaxChunks == 5

\* Number of pipeline schedules a project has.
MaxSchedules == 2

\* Number of jobs the job lists of one run hold, all lists together.
MaxJobs == 4

(***************************************************************************)
(* Text.                                                                   *)
(***************************************************************************)
\* The literal 'Running job ' of the fetcher pattern.
RunningJobPrefix == <<"R","u","n","n","i","n","g"," ","j","o","b"," ">>

\* The literal 'Importing provider ' of the importer pattern.
ImportingProviderPrefix ==
    <<"I","m","p","o","r","t","i","n","g"," ","p","r","o","v","i","d","e","r"," ">>

\* The characters the class [^$ ] of the fetcher pattern rejects.
FetcherExcluded == {"$", " "}

\* The characters the class [^$. ] of the importer pattern rejects.
ImporterExcluded == {"$", ".", " "}

\* The literal prefix matches text s at position i.
LiteralAt(prefix, s, i) ==
    /\ i + Len(prefix) - 1 <= Len(s)
    /\ \A k \in 1..Len(prefix) : s[i + k - 1] = prefix[k]

\* First position at or after i holding a character of excluded (Len(s)+1 if none):
\* where the greedy class [^...]+ started before i stops.
RECURSIVE ClassEnd(_, _, _)
ClassEnd(excluded, s, i) ==
    IF i > Len(s) \/ s[i] \in excluded THEN i ELSE ClassEnd(excluded, s, i + 1)

\* re.findall(prefix + '([^excluded]+)', s) scanning from position i: the groups of the
\* non-overlapping matches, leftmost first, each scan resuming where the last match ended.
RECURSIVE FindallFrom(_, _, _, _)
FindallFrom(prefix, excluded, s, i) ==
    IF i > Len(s) THEN <<>>
    ELSE IF /\ LiteralAt(prefix, s, i)
            /\ i + Len(prefix) <= Len(s)
            /\ s[i + Len(prefix)] \notin excluded
         THEN LET from == i + Len(prefix)
                  to == ClassEnd(excluded, s, from)
              IN <<SubSeq(s, from, to - 1)>> \o FindallFrom(prefix, excluded, s, to)
         ELSE FindallFrom(prefix, excluded, s, i + 1)

findall(prefix, excluded, s) == FindallFrom(prefix, excluded, s, 1)

\* The whitespace characters.
Whitespace == {" ", "\t", "\n", "\r"}

UpperLetters ==
    <<"A","B","C","D","E","F","G","H","I","J","K","L","M",
      "N","O","P","Q","R","S","T","U","V","W","X","Y","Z">>
LowerLetters ==
    <<"a","b","c","d","e","f","g","h","i","j","k","l","m",
      "n","o","p","q","r","s","t","u","v","w","x","y","z">>

\* str.lower
lower(text) ==
    [k \in 1..Len(text) |->
        IF \E n \in 1..Len(UpperLetters) : UpperLetters[n] = text[k]
        THEN LowerLetters[CHOOSE n \in 1..Len(UpperLetters) : UpperLetters[n] = text[k]]
        ELSE text[k]]

\* str.strip
strip(text) ==
    LET kept == {k \in 1..Len(text) : text[k] \notin Whitespace}
    IN IF kept = {} THEN <<>>
       ELSE SubSeq(text, CHOOSE k \in kept : \A n \in kept : k <= n,
                         CHOOSE k \in kept : \A n \in kept : n <= k)

\* str.split(sep) for a separator of one character: the parts of text from position
\* from on, when part is the part read so far.
RECURSIVE SplitFrom(_, _, _, _)
SplitFrom(text, sep, from, part) ==
    IF from > Len(text) THEN <<part>>
    ELSE IF text[from] = sep THEN <<part>> \o SplitFrom(text, sep, from + 1, <<>>)
    ELSE SplitFrom(text, sep, from + 1, Append(part, text[from]))

split(text, sep) == SplitFrom(text, sep, 1, <<>>)

(***************************************************************************)
(* Values.                                                                 *)
(***************************************************************************)
\* A call that returns v, and a call that raises exception e.
Return(v) == [ret |-> v]
Raise(e) == [raises |-> e]
Raises(r) == "raises" \in DOMAIN r

\* An empty dict.
EmptyDict == [k \in {} |-> None]

\* The two keys of fetcher_jobs_by_type, as text.
Download == <<"d","o","w","n","l","o","a","d">>
Convert == <<"c","o","n","v","e","r","t">>

\* fetcher_jobs_by_type as get_fetcher_jobs_by_type creates it.
EmptyBuckets == [download |-> <<>>, convert |-> <<>>]

\* A job is [id, ref, status, started_at, trace]; its field trace is what job.trace()
\* does: Return(text), or Raise("GitlabGetError") when the trace is missing.
TraceMissing == Raise("GitlabGetError")

(***************************************************************************)
(* Job Trace Classifier.                                                   *)
(***************************************************************************)
\* A variant of get_fetcher_job_variables that keeps the first of several matches.
get_fetcher_job_variables_first(job) ==
    IF Raises(job.trace) THEN Return(None)
    ELSE LET values == findall(RunningJobPrefix, FetcherExcluded, job.trace.ret)
         IN IF values = <<>> THEN Return(None) ELSE Return([JOB |-> values[1]])

\* A variant of get_fetcher_job_variables that lets the error of a missing trace through.
get_fetcher_job_variables_propagate(job) ==
    IF Raises(job.trace) THEN job.trace
    ELSE LET values == findall(RunningJobPrefix, FetcherExcluded, job.trace.ret)
         IN IF Len(values) > 1 THEN Raise("AssertionError")
            ELSE IF values = <<>> THEN Return(None)
            ELSE Return([JOB |-> values[1]])

get_fetcher_job_variables(job) ==
    IF Raises(job.trace) THEN Return(None)
    ELSE LET values == findall(RunningJobPrefix, FetcherExcluded, job.trace.ret)
         IN IF Len(values) > 1 THEN Raise("AssertionError")
            ELSE IF values = <<>> THEN Return(None)
            ELSE Return([JOB |-> values[1]])

\* A variant of get_importer_job_variables that keeps the last of several matches.
get_importer_job_variables_last(job) ==
    IF Raises(job.trace) THEN job.trace
    ELSE LET values == findall(ImportingProviderPrefix, ImporterExcluded, job.trace.ret)
         IN Return([PROVIDER_SLUG |-> IF values # <<>> THEN values[Len(values)] ELSE NoneText])

get_importer_job_variables(job) ==
    IF Raises(job.trace) THEN job.trace
    ELSE LET values == findall(ImportingProviderPrefix, ImporterExcluded, job.trace.ret)
         IN IF Len(values) > 1 THEN Raise("AssertionError")
            ELSE Return([PROVIDER_SLUG |-> IF values # <<>> THEN values[1] ELSE NoneText])

(***************************************************************************)
(* Cross-Project Correlator.                                               *)
(***************************************************************************)
\* A variant of FetcherJobBody that leaves out a job whose label names no bucket.
FetcherJobBody_skip_unknown(fetcher_jobs_by_type, job) ==
    IF ~args.all_branches /\ job.ref # "master" THEN Return(fetcher_jobs_by_type)
    ELSE LET r == get_fetcher_job_variables(job)
         IN IF Raises(r) THEN r
            ELSE IF r.ret = None THEN Return(fetcher_jobs_by_type)
            ELSE IF r.ret.JOB = Download
                 THEN Return([fetcher_jobs_by_type EXCEPT !.download = Append(@, job)])
            ELSE IF r.ret.JOB = Convert
                 THEN Return([fetcher_jobs_by_type EXCEPT !.convert = Append(@, job)])
            ELSE Return(fetcher_jobs_by_type)

\* A variant of FetcherJobBody that considers the jobs of every branch.
FetcherJobBody_all_refs(fetcher_jobs_by_type, job) ==
    LET r == get_fetcher_job_variables(job)
    IN IF Raises(r) THEN r
       ELSE IF r.ret = None THEN Return(fetcher_jobs_by_type)
       ELSE IF r.ret.JOB = Download
            THEN Return([fetcher_jobs_by_type EXCEPT !.download = Append(@, job)])
       ELSE IF r.ret.JOB = Convert
            THEN Return([fetcher_jobs_by_type EXCEPT !.convert = Append(@, job)])
       ELSE Raise("KeyError")

\* Body of the loop of get_fetcher_jobs_by_type for one job: the buckets after it, or
\* the exception that leaves the loop.
FetcherJobBody(fetcher_jobs_by_type, job) ==
    IF ~args.all_branches /\ job.ref # "master" THEN Return(fetcher_jobs_by_type)
    ELSE LET r == get_fetcher_job_variables(job)
         IN IF Raises(r) THEN r
            ELSE IF r.ret = None THEN Return(fetcher_jobs_by_type)
            ELSE IF r.ret.JOB = Download
                 THEN Return([fetcher_jobs_by_type EXCEPT !.download = Append(@, job)])
            ELSE IF r.ret.JOB = Convert
                 THEN Return([fetcher_jobs_by_type EXCEPT !.convert = Append(@, job)])
            ELSE Raise("KeyError")

\* A variant of IndexJobsFrom where the slugs share one list (the default of setdefault
\* created once): each job is appended to the list of every slug seen so far.
RECURSIVE IndexJobsFrom_shared_list(_, _, _)
IndexJobsFrom_shared_list(jobs_with_variables, k, index) ==
    IF k > Len(jobs_with_variables) THEN index
    ELSE LET job == jobs_with_variables[k][1]
             provider_slug == jobs_with_variables[k][2].PROVIDER_SLUG
         IN IndexJobsFrom_shared_list(jobs_with_variables, k + 1,
                IF provider_slug = NoneText THEN index
                ELSE LET shared == IF DOMAIN index = {} THEN <<job>>
                                   ELSE Append(index[CHOOSE s \in DOMAIN index : TRUE], job)
                     IN [s \in DOMAIN index \cup {provider_slug} |-> shared])

\* The loop that fills index_jobs_by_provider_slug, from position k of the list.
RECURSIVE IndexJobsFrom(_, _, _)
IndexJobsFrom(jobs_with_variables, k, index) ==
    IF k > Len(jobs_with_variables) THEN index
    ELSE LET job == jobs_with_variables[k][1]
             provider_slug == jobs_with_variables[k][2].PROVIDER_SLUG
         IN IndexJobsFrom(jobs_with_variables, k + 1,
                IF provider_slug = NoneText THEN index
                ELSE IF provider_slug \in DOMAIN index
                     THEN [index EXCEPT ![provider_slug] = Append(@, job)]
                     ELSE (provider_slug :> <<job>>) @@ index)

IndexJobs(jobs_with_variables) == IndexJobsFrom(jobs_with_variables, 1, EmptyDict)

(***************************************************************************)
(* Provider Enumerator.                                                    *)
(***************************************************************************)
FetcherSuffix == <<"-","f","e","t","c","h","e","r">>
DummyPrefix == <<"d","u","m","m","y">>

\* str.endswith and str.startswith.
EndsWith(s, suffix) ==
    /\ Len(suffix) <= Len(s)
    /\ SubSeq(s, Len(s) - Len(suffix) + 1, Len(s)) = suffix
StartsWith(s, prefix) ==
    /\ Len(prefix) <= Len(s)
    /\ SubSeq(s, 1, Len(prefix)) = prefix

\* name[:-len("-fetcher")]
SlugOfName(name) == SubSeq(name, 1, Len(name) - Len(FetcherSuffix))

\* x in list
InList(x, list) == \E k \in 1..Len(list) : list[k] = x

\* args.providers as main() rewrites it from the option --providers: the list of the
\* lower-cased parts between commas, or the empty list when the option was not given
\* (None in the source; split never returns an empty list).
ParseProviders(option) ==
    IF option = NoneText THEN <<>>
    ELSE LET parts == split(strip(option), ",")
         IN [k \in 1..Len(parts) |-> lower(parts[k])]

\* A variant of IsSelectedFetcher that keeps the placeholder projects.
IsSelectedFetcher_with_dummy(group_project) ==
    /\ EndsWith(group_project.name, FetcherSuffix)
    /\ (args.providers = <<>> \/ InList(SlugOfName(group_project.name), args.providers))

\* A variant of IsSelectedFetcher that ignores --providers.
IsSelectedFetcher_all_providers(group_project) ==
    /\ EndsWith(group_project.name, FetcherSuffix)
    /\ ~StartsWith(group_project.name, DummyPrefix)

\* The condition of the comprehension that builds fetchers_projects. args.providers is
\* a list of slugs, empty when --providers was not given (None in the source).
IsSelectedFetcher(group_project) ==
    /\ EndsWith(group_project.name, FetcherSuffix)
    /\ ~StartsWith(group_project.name, DummyPrefix)
    /\ (args.providers = <<>> \/ InList(SlugOfName(group_project.name), args.providers))

\* fetchers_projects, from the projects of the group as the API listed them.
SelectFetchers(group_projects) == SelectSeq(group_projects, IsSelectedFetcher)

(***************************************************************************)
(* Schedule Resolver.                                                      *)
(***************************************************************************)
\* A variant of get_pipeline_schedule that takes the first schedule of several.
get_pipeline_schedule_first(pipeline_schedules) ==
    Return(IF pipeline_schedules # <<>> THEN pipeline_schedules[1] ELSE None)

\* get_pipeline_schedule, from what project.pipelineschedules.list() returned.
get_pipeline_schedule(pipeline_schedules) ==
    IF Len(pipeline_schedules) > 1 THEN Raise("AssertionError")
    ELSE Return(IF pipeline_schedules # <<>> THEN pipeline_schedules[1] ELSE None)

(***************************************************************************)
(* Report Renderer.                                                        *)
(***************************************************************************)
dbnomics_importer_nb_jobs == 100

star_providers_slugs ==
    << <<"b","i","s">>, <<"e","c","b">>, <<"e","u","r","o","s","t","a","t">>, <<"i","m","f">>,
       <<"o","e","c","d">>, <<"i","l","o">>, <<"w","t","o">>, <<"w","b">> >>

\* The number of jobs of a kind print_html_dashboard takes for a row.
NbJobsTaken == 3

\* list(take(n, list))
take(n, list) == SubSeq(list, 1, IF Len(list) < n THEN Len(list) ELSE n)

\* bool(x) of an optional text and of an optional list.
TruthyText(text) == text # NoneText /\ text # <<>>
TruthyList(list) == list # NoneList /\ list # <<>>

\* dict.get(key) of a dict of lists.
GetList(dict, key) == IF key \in DOMAIN dict THEN dict[key] ELSE NoneList

\* A variant of format_job_link that shows the reported status of a job that never started.
format_job_link_raw(project, job) ==
    LET job_status == job.status
        i_classes ==
            IF job_status = "running" THEN "fa-clock text-info"
            ELSE IF job_status = "failed" THEN "fa-exclamation-circle text-danger"
            ELSE IF job_status = "stuck" THEN "fa-exclamation-circle text-dark"
            ELSE IF job_status = "canceled" THEN "fa-minus-circle text-dark"
            ELSE "fa-check-circle text-success"
    IN [href |-> [project |-> project.name, job |-> job.id],
        status |-> job_status,
        started |-> IF TruthyText(job.started_at) THEN job.started_at ELSE <<"?">>,
        i_classes |-> i_classes]

\* A variant of format_job_link without the icon of canceled jobs.
format_job_link_no_canceled(project, job) ==
    LET job_status == IF ~TruthyText(job.started_at) THEN "stuck" ELSE job.status
        i_classes ==
            IF job_status = "running" THEN "fa-clock text-info"
            ELSE IF job_status = "failed" THEN "fa-exclamation-circle text-danger"
            ELSE IF job_status = "stuck" THEN "fa-exclamation-circle text-dark"
            ELSE "fa-check-circle text-success"
    IN [href |-> [project |-> project.name, job |-> job.id],
        status |-> job_status,
        started |-> IF TruthyText(job.started_at) THEN job.started_at ELSE <<"?">>,
        i_classes |-> i_classes]

\* format_job_link: the anchor of a job, with the status its title shows and its icon.
format_job_link(project, job) ==
    LET job_status == IF ~TruthyText(job.started_at) THEN "stuck" ELSE job.status
        i_classes ==
            IF job_status = "running" THEN "fa-clock text-info"
            ELSE IF job_status = "failed" THEN "fa-exclamation-circle text-danger"
            ELSE IF job_status = "stuck" THEN "fa-exclamation-circle text-dark"
            ELSE IF job_status = "canceled" THEN "fa-minus-circle text-dark"
            ELSE "fa-check-circle text-success"
    IN [href |-> [project |-> project.name, job |-> job.id],
        status |-> job_status,
        started |-> IF TruthyText(job.started_at) THEN job.started_at ELSE <<"?">>,
        i_classes |-> i_classes]

\* format_pipeline_schedule_link: the anchor of the schedule column.
format_pipeline_schedule_link(project, pipeline_schedule) ==
    IF pipeline_schedule = None
    THEN [href |-> [project |-> project.name, page |-> "pipeline_schedules"],
          title |-> "Scheduler does not exist",
          i_class |-> "fa-exclamation-triangle text-danger"]
    ELSE [href |-> [project |-> project.name, pipeline_schedule |-> pipeline_schedule.id],
          title |-> IF pipeline_schedule.active THEN "status: active" ELSE "status: inactive",
          i_class |-> IF pipeline_schedule.active THEN "fa-check text-success"
                      ELSE "fa-times text-warning"]

\* "".join(format_job_link(project, job) for job in jobs)
JobLinks(project, jobs) == [k \in 1..Len(jobs) |-> format_job_link(project, jobs[k])]

\* A variant of NoneFoundLink that leaves the cell empty.
NoneFoundLink_empty(project, title) == <<>>

\* The single anchor of a column that has no job to show.
NoneFoundLink(project, title) ==
    <<[href |-> [project |-> project.name, page |-> "jobs"],
       title |-> title,
       i_classes |-> "fa-question-circle text-warning"]>>

\* A variant of SolrInfo that counts nothing for a provider it did not find.
SolrInfo_zero(solr) ==
    IF args.disable_solr_info
    THEN Return([provider_solr |-> None, nb_datasets |-> <<>>, nb_series |-> <<>>])
    ELSE IF Raises(solr.provider) THEN solr.provider
    ELSE IF Len(solr.provider.ret) # 1
         THEN Return([provider_solr |-> None, nb_datasets |-> <<0>>, nb_series |-> <<0>>])
    ELSE IF Raises(solr.datasets) THEN solr.datasets
    ELSE IF Raises(solr.series) THEN solr.series
    ELSE Return([provider_solr |-> solr.provider.ret[1],
                 nb_datasets |-> <<solr.datasets.ret>>,
                 nb_series |-> <<solr.series.ret>>])

\* The Solr part of format_fetcher_tr. solr holds what the three searches answer when
\* they are made: solr.provider is Return(docs) or Raise("SolrError"), solr.datasets and
\* solr.series are Return(hits) or Raise("SolrError"). The result is
\* Return([provider_solr, nb_datasets, nb_series]) with None or hits wrapped as
\* a list of at most one element, or the exception of the first search that raises.
SolrInfo(solr) ==
    IF args.disable_solr_info
    THEN Return([provider_solr |-> None, nb_datasets |-> <<>>, nb_series |-> <<>>])
    ELSE IF Raises(solr.provider) THEN solr.provider
    ELSE LET provider_solr_results == solr.provider.ret
             provider_solr ==
                 IF provider_solr_results = <<>> THEN None
                 ELSE IF Len(provider_solr_results) > 1 THEN None
                 ELSE provider_solr_results[1]
         IN IF provider_solr = None
            THEN Return([provider_solr |-> None, nb_datasets |-> <<>>, nb_series |-> <<>>])
            ELSE IF Raises(solr.datasets) THEN solr.datasets
            ELSE IF Raises(solr.series) THEN solr.series
            ELSE Return([provider_solr |-> provider_solr,
                         nb_datasets |-> <<solr.datasets.ret>>,
                         nb_series |-> <<solr.series.ret>>])

\* A variant of SolrQueries that does not look at --disable-solr-info.
SolrQueries_always(provider_slug, solr) ==
    <<[type |-> "provider", slug |-> provider_slug]>>
    \o (IF Raises(solr.provider) \/ "ret" \notin DOMAIN solr.provider THEN <<>>
        ELSE IF Len(solr.provider.ret) # 1 THEN <<>>
        ELSE <<[type |-> "dataset", provider_code |-> solr.provider.ret[1].code]>>
             \o (IF Raises(solr.datasets) THEN <<>>
                 ELSE <<[type |-> "series", provider_code |-> solr.provider.ret[1].code]>>))

\* The queries format_fetcher_tr sends to Solr for a row, up to the first that raises:
\* Q(type='provider', slug=...), then Q(type='dataset', provider_code=...) and
\* Q(type='series', provider_code=...) when the first found one provider.
SolrQueries(provider_slug, solr) ==
    IF args.disable_solr_info THEN <<>>
    ELSE <<[type |-> "provider", slug |-> provider_slug]>>
         \o (IF Raises(solr.provider) THEN <<>>
             ELSE IF Len(solr.provider.ret) # 1 THEN <<>>
             ELSE <<[type |-> "dataset", provider_code |-> solr.provider.ret[1].code]>>
                  \o (IF Raises(solr.datasets) THEN <<>>
                      ELSE <<[type |-> "series", provider_code |-> solr.provider.ret[1].code]>>))

\* The warnings format_fetcher_tr logs for the provider search of a row.
SolrWarnings(provider_slug, solr) ==
    IF args.disable_solr_info \/ Raises(solr.provider) THEN <<>>
    ELSE IF solr.provider.ret = <<>>
         THEN <<[level |-> "warning", message |-> "Could not find provider",
                 slug |-> provider_slug]>>
    ELSE IF Len(solr.provider.ret) > 1
         THEN <<[level |-> "warning", message |-> "Many providers were found",
                 slug |-> provider_slug]>>
    ELSE <<>>

\* A variant of FormatCount that tests the count for truth, not for None.
FormatCount_falsy(nb) ==
    IF nb = <<>> \/ nb = <<0>> THEN [unknown |-> "?"] ELSE [number |-> nb[1]]

\* A count as the row shows it: "?" for None, else the number.
FormatCount(nb) == IF nb = <<>> THEN [unknown |-> "?"] ELSE [number |-> nb[1]]

\* format_fetcher_tr: the row of a provider, or the exception a Solr search raised.
format_fetcher_tr(project, importer_project, provider_number, provider_slug, pipeline_schedule, download_jobs, convert_jobs, index_jobs, solr) ==
    LET pipeline_schedule_link == format_pipeline_schedule_link(project, pipeline_schedule)
        download_links ==
            IF download_jobs # <<>> THEN JobLinks(project, download_jobs)
            ELSE NoneFoundLink(project, "No download jobs found")
        conversion_links ==
            IF convert_jobs # <<>> THEN JobLinks(project, convert_jobs)
            ELSE NoneFoundLink(project, "No conversion jobs found")
        indexation_links ==
            IF TruthyList(index_jobs) THEN JobLinks(importer_project, index_jobs)
            ELSE NoneFoundLink(importer_project, "No indexation jobs found")
        info == SolrInfo(solr)
    IN IF Raises(info) THEN info
       ELSE Return([provider_slug |-> provider_slug,
                    provider_number |-> provider_number,
                    star |-> InList(provider_slug, star_providers_slugs),
                    ui_link |-> IF info.ret.provider_solr # None
                                THEN <<info.ret.provider_solr.code>> ELSE <<>>,
                    pipeline_schedule_link |-> pipeline_schedule_link,
                    download_links |-> download_links,
                    conversion_links |-> conversion_links,
                    indexation_links |-> indexation_links,
                    nb_datasets |-> FormatCount(info.ret.nb_datasets),
                    nb_series |-> FormatCount(info.ret.nb_series)])

\* The shared importer project, gl.projects.get("dbnomics/dbnomics-importer").
ImporterProject ==
    [id |-> 0, name |-> <<"d","b","n","o","m","i","c","s","-","i","m","p","o","r","t","e","r">>]

\* A variant of DashboardRowOf that shows the index jobs of some other slug when the
\* provider has none.
DashboardRowOf_any_index_jobs(project, provider_number, schedules, jobs, index, solr) ==
    LET provider_slug == SlugOfName(project.name)
        fetcher_jobs == jobs[project.id]
    IN format_fetcher_tr(project, ImporterProject, provider_number, provider_slug,
                         schedules[project.id],
                         take(NbJobsTaken, fetcher_jobs.download),
                         take(NbJobsTaken, fetcher_jobs.convert),
                         IF provider_slug \in DOMAIN index THEN index[provider_slug]
                         ELSE IF DOMAIN index = {} THEN NoneList
                         ELSE index[CHOOSE slug \in DOMAIN index : TRUE],
                         solr)

\* The body of the loop of print_html_dashboard for one fetcher, as a function of what
\* the loop reads: the project, its ordinal and the dicts main() has built.
DashboardRowOf(project, provider_number, schedules, jobs, index, solr) ==
    LET provider_slug == SlugOfName(project.name)
        pipeline_schedule == schedules[project.id]
        fetcher_jobs == jobs[project.id]
        download_jobs == take(NbJobsTaken, fetcher_jobs.download)
        convert_jobs == take(NbJobsTaken, fetcher_jobs.convert)
        index_jobs == GetList(index, provider_slug)
    IN format_fetcher_tr(project, ImporterProject, provider_number, provider_slug,
                         pipeline_schedule, download_jobs, convert_jobs, index_jobs, solr)

\* A variant of DashboardRow that numbers the rows from 0.
DashboardRow_from_zero(provider_number, solr) ==
    DashboardRowOf(fetchers_projects[provider_number], provider_number - 1,
                   pipeline_schedule_by_fetcher_id, jobs_by_fetcher_id,
                   index_jobs_by_provider_slug, solr)

\* The body of the loop of print_html_dashboard for the provider_number-th fetcher: what
\* is written to tbody_io, or the exception that ends the loop.
DashboardRow(provider_number, solr) ==
    DashboardRowOf(fetchers_projects[provider_number], provider_number,
                   pipeline_schedule_by_fetcher_id, jobs_by_fetcher_id,
                   index_jobs_by_provider_slug, solr)

(***************************************************************************)
(* The remote services: what the calls of a run may answer.                *)
(*                                                                         *)
(* A run is made against one of five classes of worlds. In each class one  *)
(* service answers anything the bounds allow (failures included) and the   *)
(* others answer a fixed nominal value: the group lists every project,     *)
(* each fetcher has one active schedule, the job lists are empty, Solr     *)
(* finds one provider document.                                            *)
(***************************************************************************)
Worlds == {"projects", "schedules", "fetcher_jobs", "importer_jobs", "solr"}

\* The concatenation of the texts of a list.
RECURSIVE Cat(_)
Cat(texts) == IF texts = <<>> THEN <<>> ELSE Head(texts) \o Cat(Tail(texts))

Bis == <<"b","i","s">>
Ecb == <<"e","c","b">>

\* The projects of the group dbnomics-fetchers, in the order order_by="name", sort="asc".
GroupUniverse ==
    << [id |-> 1, name |-> Bis \o FetcherSuffix],
       [id |-> 2, name |-> <<"d","o","c","s">>],
       [id |-> 3, name |-> DummyPrefix \o FetcherSuffix],
       [id |-> 4, name |-> Ecb \o FetcherSuffix],
       [id |-> 5, name |-> <<"x">> \o FetcherSuffix] >>

\* The projects the group holds, in the order GitLab stores them: any of them, in any
\* order, when the run is one of the class that varies the group.
GroupStorages ==
    IF world \in {"projects", "ls_providers"}
    THEN UNION {{[k \in 1..n |-> GroupUniverse[f[k]]]
                 : f \in {g \in [1..n -> 1..Len(GroupUniverse)]
                          : \A i, j \in 1..n : i # j => g[i] # g[j]}}
                : n \in 0..Len(GroupUniverse)}
    ELSE {GroupUniverse}

\* The order of the characters of project names.
CharOrder == <<"-">> \o LowerLetters
CharRank(c) == CHOOSE k \in 1..Len(CharOrder) : CharOrder[k] = c

\* s is before t in the order of names.
TextLess(s, t) ==
    \E k \in 1..Len(t) :
        /\ k <= Len(s) + 1
        /\ SubSeq(s, 1, k - 1) = SubSeq(t, 1, k - 1)
        /\ (k = Len(s) + 1 \/ CharRank(s[k]) < CharRank(t[k]))

\* A variant of ProjectsList for a request without order_by: the stored order.
ProjectsList_unordered(stored) == stored

\* dbnomics_fetchers_group.projects.list(order_by="name", sort="asc", all=True): every
\* project of the group, as GitLab orders them by name.
ProjectsList(stored) == SortSeq(stored, LAMBDA p, q : TextLess(p.name, q.name))

\* What project.pipelineschedules.list() may return.
ScheduleLists ==
    IF world = "schedules"
    THEN UNION {{[k \in 1..n |-> [id |-> k, active |-> f[k]]] : f \in [1..n -> BOOLEAN]}
                : n \in 0..MaxSchedules}
    ELSE {<<[id |-> 1, active |-> TRUE]>>}

\* Traces of fetcher jobs: one label, no label, two labels, a label that is no bucket,
\* a label that ends a line; and the missing trace.
FetcherTraces ==
    {Return(Cat(<<RunningJobPrefix, Download, <<" ">>, <<"o","k">>>>)),
     Return(Cat(<<RunningJobPrefix, Convert, <<" ">>, <<"o","k">>>>)),
     Return(<<"o","k">>),
     Return(Cat(<<RunningJobPrefix, Download, <<" ">>, RunningJobPrefix, Convert>>)),
     Return(Cat(<<RunningJobPrefix, <<"v","a","l","i","d","a","t","e">>, <<" ">>>>)),
     Return(Cat(<<RunningJobPrefix, Download, <<"\n">>, <<"o","k">>>>)),
     TraceMissing}

\* Traces of importer jobs: the slug of a fetcher, of no fetcher, no slug, two slugs; and
\* the missing trace.
ImporterTraces ==
    {Return(Cat(<<ImportingProviderPrefix, Bis, <<".",".",".">>>>)),
     Return(Cat(<<ImportingProviderPrefix, <<"z">>>>)),
     Return(<<"o","k">>),
     Return(Cat(<<ImportingProviderPrefix, Bis, <<" ">>, ImportingProviderPrefix, Ecb>>)),
     TraceMissing}

\* The branches of jobs.
Refs == {"master", "dev"}

\* Branch, status and start time of the jobs of a run: one that ran on the primary
\* branch, one of another branch that never started.
RunJobs ==
    {[ref |-> "master", status |-> "success", started_at |-> <<"t">>],
     [ref |-> "dev", status |-> "running", started_at |-> NoneText]}

\* The jobs a job list of a run may hold at id.
JobsAt(id, traces) ==
    {[id |-> id, ref |-> j.ref, status |-> j.status, started_at |-> j.started_at,
      trace |-> trace] : j \in RunJobs, trace \in traces}

\* How many jobs project.jobs.list() may return for a fetcher, for the importer.
FetcherJobCounts == IF world = "fetcher_jobs" THEN 0..(MaxJobs + 1 - cursor.next_id) ELSE {0}
ImporterJobCounts == IF world = "importer_jobs" THEN 0..(MaxJobs + 1 - cursor.next_id) ELSE {0}

\* The provider codes of the documents Solr holds, and the hit counts it answers.
SolrCodes == {<<"B","I","S">>, <<"Q">>}
SolrHits == {0, 3}

\* A search that format_fetcher_tr does not make.
NotAsked == [not_asked |-> TRUE]

\* What the searches of one row may answer: the provider search, and the two counting
\* searches when they are made. In the runs that vary another service Solr finds one
\* provider document and counts 3 datasets and 3 series.
SolrAnswers ==
    IF args.disable_solr_info
    THEN {[provider |-> NotAsked, datasets |-> NotAsked, series |-> NotAsked]}
    ELSE IF world # "solr"
    THEN {[provider |-> Return(<<[code |-> <<"Q">>]>>), datasets |-> Return(3),
           series |-> Return(3)]}
    ELSE {[provider |-> Raise("SolrError"), datasets |-> NotAsked, series |-> NotAsked]}
         \cup {[provider |-> Return(docs), datasets |-> NotAsked, series |-> NotAsked]
               : docs \in {<<>>} \cup {<<[code |-> c], [code |-> d]>> : c, d \in SolrCodes}}
         \cup {[provider |-> Return(<<[code |-> c]>>), datasets |-> Raise("SolrError"),
                series |-> NotAsked] : c \in SolrCodes}
         \cup {[provider |-> Return(<<[code |-> c]>>), datasets |-> Return(h), series |-> a]
               : c \in SolrCodes, h \in SolrHits,
                 a \in {Raise("SolrError")} \cup {Return(g) : g \in SolrHits}}

(***************************************************************************)
(* main(): one run of the dashboard generator.                             *)
(***************************************************************************)
\* The values of --providers: not given, two slugs, a slug in upper case, two slugs
\* with blanks around them.
ProvidersOptions ==
    {NoneText,
     Bis \o <<",">> \o Ecb,
     <<"B","I","S">>,
     <<" ">> \o Bis \o <<",", " ">> \o Ecb \o <<" ">>}

\* The command lines of the model: --providers and --all-branches, each given or not
\* where the world of the run makes a difference, and --disable-solr-info, given in the
\* runs that vary the fetcher jobs, not given in those that vary the importer jobs,
\* given or not in the others.
ArgsOf(w) ==
    [providers : {ParseProviders(option)
                  : option \in IF w = "projects" THEN ProvidersOptions ELSE {NoneText}},
     all_branches : IF w \in {"fetcher_jobs", "importer_jobs"} THEN BOOLEAN ELSE {FALSE},
     disable_solr_info : IF w = "fetcher_jobs" THEN {TRUE}
                         ELSE IF w = "importer_jobs" THEN {FALSE} ELSE BOOLEAN]

NoCall == [fn |-> "none"]

\* GitLab as the dashboard generator leaves it: it only reads.
Untouched == [namespaces |-> {}, projects |-> {}, triggers |-> <<>>, creates |-> <<>>,
              pipelines |-> <<>>]

IdleCursor == [i |-> 1, todo |-> 0, next_id |-> 1, job |-> None,
               fetcher_jobs_by_type |-> EmptyBuckets]

Init ==
    /\ world \in Worlds
    /\ pc = "start"
    /\ args \in ArgsOf(world)
    /\ fetchers_projects = <<>>
    /\ pipeline_schedule_by_fetcher_id = EmptyDict
    /\ jobs_by_fetcher_id = EmptyDict
    /\ importer_jobs_with_variables = <<>>
    /\ index_jobs_by_provider_slug = EmptyDict
    /\ tbody = <<>>
    /\ stdout = <<>>
    /\ error = "none"
    /\ log = <<>>
    /\ searches = <<>>
    /\ cursor = IdleCursor
    /\ last = NoCall
    /\ gitlab = Untouched

\* An uncaught exception ends main(): the interpreter prints the traceback on standard
\* error and exits.
Abort(exception) ==
    /\ pc' = "failed"
    /\ error' = exception

\* main() up to the list fetchers_projects: the token check, the login and the listing
\* of the group, which each may fail.
Enumerate ==
    /\ pc = "start"
    /\ \/ /\ world = "projects"
          /\ pc' = "returned"
          /\ error' = "exit 1"
          /\ last' = NoCall
          /\ UNCHANGED <<fetchers_projects, cursor>>
       \/ /\ world = "projects"
          /\ \E exception \in {"GitlabAuthenticationError", "GitlabGetError", "GitlabListError"} :
                Abort(exception)
          /\ last' = NoCall
          /\ UNCHANGED <<fetchers_projects, cursor>>
       \/ \E stored \in GroupStorages :
             LET group_projects == ProjectsList(stored)
             IN /\ fetchers_projects' = SelectFetchers(group_projects)
                /\ last' = [fn |-> "projects.list", arg |-> stored, ret |-> group_projects]
                /\ pc' = "schedules"
                /\ cursor' = [cursor EXCEPT !.i = 1]
                /\ UNCHANGED error
    /\ UNCHANGED <<log, searches, args, pipeline_schedule_by_fetcher_id, jobs_by_fetcher_id,
                   importer_jobs_with_variables, index_jobs_by_provider_slug, tbody, stdout,
                   world, gitlab>>

\* One entry of the comprehension pipeline_schedule_by_fetcher_id.
ResolveSchedule ==
    /\ pc = "schedules"
    /\ cursor.i <= Len(fetchers_projects)
    /\ \/ /\ world = "schedules"
          /\ Abort("GitlabListError")
          /\ last' = NoCall
          /\ UNCHANGED <<pipeline_schedule_by_fetcher_id, cursor>>
       \/ \E pipeline_schedules \in ScheduleLists :
             LET fetcher_project == fetchers_projects[cursor.i]
                 r == get_pipeline_schedule(pipeline_schedules)
             IN /\ last' = [fn |-> "get_pipeline_schedule", arg |-> pipeline_schedules,
                            ret |-> r]
                /\ IF Raises(r)
                   THEN /\ Abort(r.raises)
                        /\ UNCHANGED <<pipeline_schedule_by_fetcher_id, cursor>>
                   ELSE /\ pipeline_schedule_by_fetcher_id' =
                               (fetcher_project.id :> r.ret) @@ pipeline_schedule_by_fetcher_id
                        /\ cursor' = [cursor EXCEPT !.i = @ + 1]
                        /\ UNCHANGED <<pc, error>>
    /\ UNCHANGED <<log, searches, args, fetchers_projects, jobs_by_fetcher_id, importer_jobs_with_variables,
                   index_jobs_by_provider_slug, tbody, stdout, world, gitlab>>

\* The comprehension pipeline_schedule_by_fetcher_id is complete.
SchedulesDone ==
    /\ pc = "schedules"
    /\ cursor.i > Len(fetchers_projects)
    /\ pc' = "fetcher_jobs"
    /\ cursor' = [cursor EXCEPT !.i = 1]
    /\ last' = NoCall
    /\ UNCHANGED <<log, searches, args, fetchers_projects, pipeline_schedule_by_fetcher_id, jobs_by_fetcher_id,
                   importer_jobs_with_variables, index_jobs_by_provider_slug, tbody, stdout,
                   error, world, gitlab>>

\* get_fetcher_jobs_by_type(project) up to its loop: project.jobs.list().
FetcherJobsList ==
    /\ pc = "fetcher_jobs"
    /\ cursor.i <= Len(fetchers_projects)
    /\ \/ /\ world = "fetcher_jobs"
          /\ Abort("GitlabListError")
          /\ UNCHANGED cursor
       \/ \E n \in FetcherJobCounts :
             /\ cursor' = [cursor EXCEPT !.todo = n, !.fetcher_jobs_by_type = EmptyBuckets]
             /\ pc' = "fetcher_jobs_loop"
             /\ UNCHANGED error
    /\ last' = NoCall
    /\ UNCHANGED <<log, searches, args, fetchers_projects, pipeline_schedule_by_fetcher_id, jobs_by_fetcher_id,
                   importer_jobs_with_variables, index_jobs_by_provider_slug, tbody, stdout,
                   world, gitlab>>

\* The loop of get_fetcher_jobs_by_type takes the next job of the list.
FetcherJobNext ==
    /\ pc = "fetcher_jobs_loop"
    /\ cursor.todo > 0
    /\ \E job \in JobsAt(cursor.next_id, FetcherTraces) :
          cursor' = [cursor EXCEPT !.job = job, !.todo = @ - 1, !.next_id = @ + 1]
    /\ pc' = "fetcher_job_body"
    /\ last' = NoCall
    /\ UNCHANGED <<log, searches, args, fetchers_projects, pipeline_schedule_by_fetcher_id, jobs_by_fetcher_id,
                   importer_jobs_with_variables, index_jobs_by_provider_slug, tbody, stdout,
                   error, world, gitlab>>

\* The body of the loop of get_fetcher_jobs_by_type, for the job taken.
ClassifyFetcherJob ==
    /\ pc = "fetcher_job_body"
    /\ LET job == cursor.job
           considered == args.all_branches \/ job.ref = "master"
           r == FetcherJobBody(cursor.fetcher_jobs_by_type, job)
       IN /\ last' = IF considered
                     THEN [fn |-> "get_fetcher_job_variables", arg |-> job,
                           ret |-> get_fetcher_job_variables(job)]
                     ELSE [fn |-> "continue", arg |-> job]
          /\ log' = IF considered /\ Raises(job.trace)
                    THEN Append(log, [level |-> "error", job |-> job.id])
                    ELSE log
          /\ IF Raises(r)
             THEN /\ Abort(r.raises)
                  /\ UNCHANGED cursor
             ELSE /\ cursor' = [cursor EXCEPT !.fetcher_jobs_by_type = r.ret, !.job = None]
                  /\ pc' = "fetcher_jobs_loop"
                  /\ UNCHANGED error
    /\ UNCHANGED <<searches, args, fetchers_projects, pipeline_schedule_by_fetcher_id,
                   jobs_by_fetcher_id, importer_jobs_with_variables,
                   index_jobs_by_provider_slug, tbody, stdout, world, gitlab>>

\* get_fetcher_jobs_by_type returns: one entry of the comprehension jobs_by_fetcher_id.
FetcherJobsReturn ==
    /\ pc = "fetcher_jobs_loop"
    /\ cursor.todo = 0
    /\ jobs_by_fetcher_id' =
           (fetchers_projects[cursor.i].id :> cursor.fetcher_jobs_by_type) @@ jobs_by_fetcher_id
    /\ cursor' = [cursor EXCEPT !.i = @ + 1, !.fetcher_jobs_by_type = EmptyBuckets]
    /\ pc' = "fetcher_jobs"
    /\ last' = NoCall
    /\ UNCHANGED <<log, searches, args, fetchers_projects, pipeline_schedule_by_fetcher_id,
                   importer_jobs_with_variables, index_jobs_by_provider_slug, tbody, stdout,
                   error, world, gitlab>>


\* A variant of ImporterJobsList that does not wait for the fetcher jobs of every project.
ImporterJobsList_early ==
    /\ pc = "fetcher_jobs"
    /\ \E n \in ImporterJobCounts :
          /\ cursor' = [cursor EXCEPT !.todo = n, !.i = 1]
          /\ pc' = "importer_jobs_loop"
          /\ UNCHANGED error
    /\ last' = NoCall
    /\ UNCHANGED <<log, searches, args, fetchers_projects, pipeline_schedule_by_fetcher_id, jobs_by_fetcher_id,
                   importer_jobs_with_variables, index_jobs_by_provider_slug, tbody, stdout,
                   world, gitlab>>

\* jobs_by_fetcher_id is complete; the importer project and its latest jobs are fetched.
ImporterJobsList ==
    /\ pc = "fetcher_jobs"
    /\ cursor.i > Len(fetchers_projects)
    /\ \/ /\ world = "importer_jobs"
          /\ \E exception \in {"GitlabGetError", "GitlabListError"} : Abort(exception)
          /\ UNCHANGED cursor
       \/ \E n \in ImporterJobCounts :
             /\ cursor' = [cursor EXCEPT !.todo = n, !.i = 1]
             /\ pc' = "importer_jobs_loop"
             /\ UNCHANGED error
    /\ last' = NoCall
    /\ UNCHANGED <<log, searches, args, fetchers_projects, pipeline_schedule_by_fetcher_id, jobs_by_fetcher_id,
                   importer_jobs_with_variables, index_jobs_by_provider_slug, tbody, stdout,
                   world, gitlab>>

\* The comprehension importer_jobs_with_variables takes the next job of the list.
ImporterJobNext ==
    /\ pc = "importer_jobs_loop"
    /\ cursor.todo > 0
    /\ \E job \in JobsAt(cursor.next_id, ImporterTraces) :
          cursor' = [cursor EXCEPT !.job = job, !.todo = @ - 1, !.next_id = @ + 1]
    /\ pc' = "importer_job_body"
    /\ last' = NoCall
    /\ UNCHANGED <<log, searches, args, fetchers_projects, pipeline_schedule_by_fetcher_id, jobs_by_fetcher_id,
                   importer_jobs_with_variables, index_jobs_by_provider_slug, tbody, stdout,
                   error, world, gitlab>>

\* One entry of the comprehension importer_jobs_with_variables.
ClassifyImporterJob ==
    /\ pc = "importer_job_body"
    /\ LET job == cursor.job
           r == get_importer_job_variables(job)
       IN /\ last' = [fn |-> "get_importer_job_variables", arg |-> job, ret |-> r]
          /\ IF Raises(r)
             THEN /\ Abort(r.raises)
                  /\ UNCHANGED <<cursor, importer_jobs_with_variables>>
             ELSE /\ importer_jobs_with_variables' =
                         Append(importer_jobs_with_variables, <<job, r.ret>>)
                  /\ cursor' = [cursor EXCEPT !.job = None]
                  /\ pc' = "importer_jobs_loop"
                  /\ UNCHANGED error
    /\ UNCHANGED <<log, searches, args, fetchers_projects, pipeline_schedule_by_fetcher_id, jobs_by_fetcher_id,
                   index_jobs_by_provider_slug, tbody, stdout, world, gitlab>>

\* importer_jobs_with_variables is complete: the loop that fills
\* index_jobs_by_provider_slug runs, and print_html_dashboard is entered.
BuildIndex ==
    /\ pc = "importer_jobs_loop"
    /\ cursor.todo = 0
    /\ index_jobs_by_provider_slug' = IndexJobs(importer_jobs_with_variables)
    /\ pc' = "render"
    /\ cursor' = [cursor EXCEPT !.i = 1]
    /\ last' = NoCall
    /\ UNCHANGED <<log, searches, args, fetchers_projects, pipeline_schedule_by_fetcher_id, jobs_by_fetcher_id,
                   importer_jobs_with_variables, tbody, stdout, error, world, gitlab>>

\* A variant of RenderRow that prints each row as soon as it is formatted.
RenderRow_streaming ==
    /\ pc = "render"
    /\ cursor.i <= Len(fetchers_projects)
    /\ \E solr \in SolrAnswers :
          LET r == DashboardRow(cursor.i, solr)
          IN /\ last' = [fn |-> "format_fetcher_tr", arg |-> solr, ret |-> r]
             /\ log' = log \o SolrWarnings(SlugOfName(fetchers_projects[cursor.i].name), solr)
             /\ searches' = searches
                              \o SolrQueries(SlugOfName(fetchers_projects[cursor.i].name), solr)
             /\ IF Raises(r)
                THEN /\ Abort(r.raises)
                     /\ UNCHANGED <<tbody, stdout, cursor>>
                ELSE /\ tbody' = Append(tbody, r.ret)
                     /\ stdout' = Append(stdout, <<r.ret>>)
                     /\ cursor' = [cursor EXCEPT !.i = @ + 1]
                     /\ UNCHANGED <<pc, error>>
    /\ UNCHANGED <<args, fetchers_projects, pipeline_schedule_by_fetcher_id, jobs_by_fetcher_id,
                   importer_jobs_with_variables, index_jobs_by_provider_slug, world, gitlab>>

\* One turn of the loop of print_html_dashboard: the row of a fetcher is written to
\* tbody_io, unless a Solr search raises.
RenderRow ==
    /\ pc = "render"
    /\ cursor.i <= Len(fetchers_projects)
    /\ \E solr \in SolrAnswers :
          LET r == DashboardRow(cursor.i, solr)
          IN /\ last' = [fn |-> "format_fetcher_tr", arg |-> solr, ret |-> r]
             /\ log' = log \o SolrWarnings(SlugOfName(fetchers_projects[cursor.i].name), solr)
             /\ searches' = searches
                              \o SolrQueries(SlugOfName(fetchers_projects[cursor.i].name), solr)
             /\ IF Raises(r)
                THEN /\ Abort(r.raises)
                     /\ UNCHANGED <<tbody, cursor>>
                ELSE /\ tbody' = Append(tbody, r.ret)
                     /\ cursor' = [cursor EXCEPT !.i = @ + 1]
                     /\ UNCHANGED <<pc, error>>
    /\ UNCHANGED <<args, fetchers_projects, pipeline_schedule_by_fetcher_id, jobs_by_fetcher_id,
                   importer_jobs_with_variables, index_jobs_by_provider_slug, stdout, world, gitlab>>

\* The end of print_html_dashboard: the template is read and the report is printed; then
\* main() returns 0.
PrintDashboard ==
    /\ pc = "render"
    /\ cursor.i > Len(fetchers_projects)
    /\ \/ /\ world = "projects"
          /\ Abort("FileNotFoundError")
          /\ UNCHANGED stdout
       \/ /\ stdout' = Append(stdout, tbody)
          /\ pc' = "done"
          /\ UNCHANGED error
    /\ last' = NoCall
    /\ UNCHANGED <<log, searches, args, fetchers_projects, pipeline_schedule_by_fetcher_id, jobs_by_fetcher_id,
                   importer_jobs_with_variables, index_jobs_by_provider_slug, tbody, cursor,
                   world, gitlab>>

Next ==
    \/ Enumerate
    \/ ResolveSchedule
    \/ SchedulesDone
    \/ FetcherJobsList
    \/ FetcherJobNext
    \/ ClassifyFetcherJob
    \/ FetcherJobsReturn
    \/ ImporterJobsList
    \/ ImporterJobNext
    \/ ClassifyImporterJob
    \/ BuildIndex
    \/ RenderRow
    \/ PrintDashboard

Spec == Init /\ [][Next]_vars

(***************************************************************************)
(* Classification of one job with any trace: main() from the moment a job  *)
(* list has returned a single job, up to the dicts built from it.          *)
(***************************************************************************)
\* The pieces the traces of this specification are made of: the prefix the classifier of
\* the job looks for, two words and the characters that may end a token.
TraceChunks(prefix) ==
    {prefix, Download, Convert, <<" ">>, <<"\n">>, <<"$">>, <<".">>}

\* The texts made of n chunks.
RECURSIVE ChunkTexts(_, _)
ChunkTexts(prefix, n) ==
    IF n = 0 THEN {<<>>}
    ELSE {chunk \o text : chunk \in TraceChunks(prefix), text \in ChunkTexts(prefix, n - 1)}

\* Every trace of at most MaxChunks chunks, and the missing trace.
AnyTraces(prefix) ==
    {Return(text) : text \in UNION {ChunkTexts(prefix, n) : n \in 0..MaxChunks}}
    \cup {TraceMissing}

NominalSchedule == [id |-> 1, active |-> TRUE]

\* main() as it stands when the only job of a job list is taken: of the first fetcher's
\* list, or of the importer's list.
InitClassify ==
    /\ world = "traces"
    /\ pc \in {"fetcher_job_body", "importer_job_body"}
    /\ args = [providers |-> <<>>, all_branches |-> FALSE, disable_solr_info |-> TRUE]
    /\ fetchers_projects = SelectFetchers(GroupUniverse)
    /\ pipeline_schedule_by_fetcher_id =
           [id \in {fetchers_projects[k].id : k \in 1..Len(fetchers_projects)}
               |-> NominalSchedule]
    /\ jobs_by_fetcher_id =
           IF pc = "fetcher_job_body" THEN EmptyDict
           ELSE [id \in {fetchers_projects[k].id : k \in 1..Len(fetchers_projects)}
                    |-> EmptyBuckets]
    /\ importer_jobs_with_variables = <<>>
    /\ index_jobs_by_provider_slug = EmptyDict
    /\ tbody = <<>>
    /\ stdout = <<>>
    /\ error = "none"
    /\ log = <<>>
    /\ searches = <<>>
    /\ \E trace \in AnyTraces(IF pc = "fetcher_job_body" THEN RunningJobPrefix
                                 ELSE ImportingProviderPrefix) :
          cursor = [i |-> 1, todo |-> 0, next_id |-> 2,
                    job |-> [id |-> 1, ref |-> "master", status |-> "success",
                             started_at |-> <<"t">>, trace |-> trace],
                    fetcher_jobs_by_type |-> EmptyBuckets]
    /\ last = NoCall
    /\ gitlab = Untouched

NextClassify ==
    \/ ClassifyFetcherJob
    \/ FetcherJobsReturn
    \/ ClassifyImporterJob
    \/ BuildIndex

SpecClassify == InitClassify /\ [][NextClassify]_vars

(***************************************************************************)
(* format_job_link on any job.                                             *)
(***************************************************************************)
\* The statuses GitLab reports for a job.
GitlabStatuses ==
    {"created", "pending", "running", "failed", "success", "canceled", "skipped", "manual"}

\* print_html_dashboard as it stands when format_fetcher_tr formats the link of a job
\* of the first fetcher or of the importer.
InitJobLink ==
    /\ world = "job_link"
    /\ pc = "format_job_link"
    /\ args = [providers |-> <<>>, all_branches |-> FALSE, disable_solr_info |-> TRUE]
    /\ fetchers_projects = SelectFetchers(GroupUniverse)
    /\ pipeline_schedule_by_fetcher_id =
           [id \in {fetchers_projects[k].id : k \in 1..Len(fetchers_projects)}
               |-> NominalSchedule]
    /\ jobs_by_fetcher_id =
           [id \in {fetchers_projects[k].id : k \in 1..Len(fetchers_projects)}
               |-> EmptyBuckets]
    /\ importer_jobs_with_variables = <<>>
    /\ index_jobs_by_provider_slug = EmptyDict
    /\ tbody = <<>>
    /\ stdout = <<>>
    /\ error = "none"
    /\ log = <<>>
    /\ searches = <<>>
    /\ \E status \in GitlabStatuses, started_at \in {NoneText, <<>>, <<"t">>}, ref \in Refs :
          cursor = [i |-> 1, todo |-> 0, next_id |-> 2,
                    job |-> [id |-> 1, ref |-> ref, status |-> status,
                             started_at |-> started_at, trace |-> Return(<<>>)],
                    fetcher_jobs_by_type |-> EmptyBuckets]
    /\ last = NoCall
    /\ gitlab = Untouched

\* One call of format_job_link by format_fetcher_tr.
FormatJobLink ==
    /\ pc = "format_job_link"
    /\ \E project \in {fetchers_projects[cursor.i], ImporterProject} :
          last' = [fn |-> "format_job_link", arg |-> <<project, cursor.job>>,
                   ret |-> format_job_link(project, cursor.job)]
    /\ pc' = "formatted"
    /\ UNCHANGED <<log, searches, args, fetchers_projects, pipeline_schedule_by_fetcher_id, jobs_by_fetcher_id,
                   importer_jobs_with_variables, index_jobs_by_provider_slug, tbody, stdout,
                   error, cursor, world, gitlab>>

NextJobLink == FormatJobLink

SpecJobLink == InitJobLink /\ [][NextJobLink]_vars

(***************************************************************************)
(* Properties.                                                             *)
(***************************************************************************)
\* The pattern prefix + class+ matches text s at position i.
PatternAt(prefix, excluded, s, i) ==
    /\ i + Len(prefix) <= Len(s)
    /\ SubSeq(s, i, i + Len(prefix) - 1) = prefix
    /\ s[i + Len(prefix)] \notin excluded

\* The end (exclusive) of the longest run of characters outside excluded that starts at from.
RunEnd(excluded, s, from) ==
    CHOOSE e \in from..(Len(s) + 1) :
        /\ \A k \in from..(e - 1) : s[k] \notin excluded
        /\ (e = Len(s) + 1 \/ s[e] \in excluded)

\* The token of the match that starts at position i.
TokenOf(prefix, excluded, s, i) ==
    SubSeq(s, i + Len(prefix), RunEnd(excluded, s, i + Len(prefix)) - 1)

\* The occurrences of the pattern in s, as a regular expression search counts them: the
\* positions where the pattern matches that lie inside no occurrence further left.
Occurrences(prefix, excluded, s) ==
    LET starts == {i \in 1..Len(s) : PatternAt(prefix, excluded, s, i)}
    IN CHOOSE occ \in SUBSET starts :
           \A i \in starts :
               (i \in occ) <=>
                   ~ \E j \in occ : j < i /\ i < RunEnd(excluded, s, j + Len(prefix))

\* The tokens of the occurrences of the pattern in s.
TokensIn(prefix, excluded, s) ==
    {TokenOf(prefix, excluded, s, i) : i \in Occurrences(prefix, excluded, s)}

\* job is in list.
Holds(list, job) == \E k \in 1..Len(list) : list[k] = job

\* C1: for a fetcher job whose trace is retrievable, get_fetcher_job_variables returns the
\* token as JOB when 'Running job <token>' occurs exactly once, returns no label when it
\* does not occur (and the job enters no bucket), and raises AssertionError, which ends
\* the run, when it occurs with two or more distinct tokens.
C1_FetcherClassification ==
    (last.fn = "get_fetcher_job_variables" /\ ~Raises(last.arg.trace)) =>
        LET s == last.arg.trace.ret
            occ == Occurrences(RunningJobPrefix, FetcherExcluded, s)
        IN /\ Cardinality(occ) = 1 =>
                  last.ret = Return([JOB |-> TokenOf(RunningJobPrefix, FetcherExcluded, s,
                                                     CHOOSE i \in occ : TRUE)])
           /\ occ = {} =>
                  /\ last.ret = Return(None)
                  /\ ~Holds(cursor.fetcher_jobs_by_type.download, last.arg)
                  /\ ~Holds(cursor.fetcher_jobs_by_type.convert, last.arg)
           /\ Cardinality(TokensIn(RunningJobPrefix, FetcherExcluded, s)) >= 2 =>
                  /\ last.ret = Raise("AssertionError")
                  /\ pc = "failed"
                  /\ error = "AssertionError"

\* C1 witness: a trace with exactly one occurrence, of the token download, was classified
\* and the job is in the download bucket.
C1_Witness ==
    /\ last.fn = "get_fetcher_job_variables"
    /\ ~Raises(last.arg.trace)
    /\ Cardinality(Occurrences(RunningJobPrefix, FetcherExcluded, last.arg.trace.ret)) = 1
    /\ last.ret = Return([JOB |-> Download])
    /\ cursor.fetcher_jobs_by_type.download = <<last.arg>>

\* C2: a run that failed has printed nothing, and whatever is printed is the report of a
\* run that formatted the row of every fetcher first.
C2_NoReportOnFatalError ==
    /\ pc = "failed" => stdout = <<>>
    /\ pc = "returned" => stdout = <<>>
    /\ stdout # <<>> =>
           /\ pc = "done"
           /\ Len(tbody) = Len(fetchers_projects)
           /\ stdout = <<tbody>>

\* C2 witness: a run failed on a trace with more than one label, after the jobs of an
\* earlier fetcher were bucketed, and has printed nothing.
C2_Witness ==
    /\ pc = "failed"
    /\ error = "AssertionError"
    /\ last.fn = "get_fetcher_job_variables"
    /\ DOMAIN jobs_by_fetcher_id # {}
    /\ stdout = <<>>

\* C3: format_job_link derives the status stuck for a job without a start time, whatever
\* its reported status, and the reported status for a job with a start time.
C3_StuckStatus ==
    last.fn = "format_job_link" =>
        LET job == last.arg[2]
        IN IF job.started_at = NoneText \/ job.started_at = <<>>
           THEN last.ret.status = "stuck"
           ELSE last.ret.status = job.status

\* C3 witness: a job reported as success that never started was formatted as stuck.
C3_Witness ==
    /\ last.fn = "format_job_link"
    /\ last.arg[2].status = "success"
    /\ last.arg[2].started_at = NoneText
    /\ last.ret.status = "stuck"

\* The number of anchors of a cell that link to a job.
NbJobLinks(links) == Cardinality({k \in 1..Len(links) : "job" \in DOMAIN links[k].href})

\* C4: every row shows at most 3 download job links, at most 3 convert job links and at
\* most 3 index job links.
C4_AtMostThreeJobsOfEachKind ==
    \A k \in 1..Len(tbody) :
        /\ NbJobLinks(tbody[k].download_links) <= 3
        /\ NbJobLinks(tbody[k].conversion_links) <= 3
        /\ NbJobLinks(tbody[k].indexation_links) <= 3

\* The ids of the jobs of a list.
JobIds(list) == {list[k].id : k \in 1..Len(list)}

\* The ids of the jobs in the buckets built so far: of the fetchers done and of the one
\* in progress.
BucketedJobIds ==
    UNION ({JobIds(jobs_by_fetcher_id[id].download) \cup JobIds(jobs_by_fetcher_id[id].convert)
            : id \in DOMAIN jobs_by_fetcher_id}
           \cup {JobIds(cursor.fetcher_jobs_by_type.download),
                 JobIds(cursor.fetcher_jobs_by_type.convert)})

\* The ids of the jobs whose missing trace was logged.
LoggedJobIds == {log[k].job : k \in {n \in 1..Len(log) : log[n].level = "error"}}

\* C5: when the trace fetch of a fetcher job raises GitlabGetError,
\* get_fetcher_job_variables returns None and nothing is raised: the loop over the
\* fetcher's jobs goes on; and a job whose trace was missing is in no bucket, up to the
\* end of the run.
C5_MissingFetcherTraceSwallowed ==
    /\ (last.fn = "get_fetcher_job_variables" /\ Raises(last.arg.trace)) =>
           /\ last.ret = Return(None)
           /\ pc = "fetcher_jobs_loop"
           /\ error = "none"
    /\ LoggedJobIds \cap BucketedJobIds = {}

\* C5 witness: the report is printed by a run in which a fetcher job had a missing trace
\* and the jobs before and after it, of the same fetcher, are in its buckets.
C5_Witness ==
    /\ pc = "done"
    /\ stdout = <<tbody>>
    /\ \E j \in LoggedJobIds, id \in DOMAIN jobs_by_fetcher_id :
          LET ids == JobIds(jobs_by_fetcher_id[id].download)
                         \cup JobIds(jobs_by_fetcher_id[id].convert)
          IN j - 1 \in ids /\ j + 1 \in ids

\* C6: when the trace fetch of an importer job raises, get_importer_job_variables yields
\* the sentinel slug, nothing is raised and the run goes on.
C6_MissingImporterTraceSwallowed ==
    (last.fn = "get_importer_job_variables" /\ Raises(last.arg.trace)) =>
        /\ last.ret = Return([PROVIDER_SLUG |-> NoneText])
        /\ pc = "importer_jobs_loop"
        /\ error = "none"

\* A search of the row raised.
SolrFailed(solr) == Raises(solr.provider) \/ Raises(solr.datasets) \/ Raises(solr.series)

\* C7: when a Solr search made for a row raises, the run does not fail and the row is
\* rendered with unknown dataset and series counts.
C7_SolrFailureCaught ==
    (last.fn = "format_fetcher_tr" /\ SolrFailed(last.arg)) =>
        /\ pc = "render"
        /\ error = "none"
        /\ ~Raises(last.ret)
        /\ last.ret.ret.nb_datasets = [unknown |-> "?"]
        /\ last.ret.ret.nb_series = [unknown |-> "?"]

\* C8: the label of a fetcher job holds no whitespace and no '$', the slug of an importer
\* job holds no whitespace, no '$' and no '.'; each is the longest run of such characters
\* after the prefix.
C8_TokenExcludesWhitespace ==
    /\ (last.fn = "get_fetcher_job_variables" /\ ~Raises(last.ret) /\ last.ret.ret # None) =>
           LET s == last.arg.trace.ret
               excluded == Whitespace \cup {"$"}
           IN \E i \in 1..Len(s) :
                  /\ PatternAt(RunningJobPrefix, excluded, s, i)
                  /\ last.ret.ret.JOB = TokenOf(RunningJobPrefix, excluded, s, i)
    /\ (last.fn = "get_importer_job_variables" /\ ~Raises(last.ret)
            /\ last.ret.ret.PROVIDER_SLUG # NoneText) =>
           LET s == last.arg.trace.ret
               excluded == Whitespace \cup {"$", "."}
           IN \E i \in 1..Len(s) :
                  /\ PatternAt(ImportingProviderPrefix, excluded, s, i)
                  /\ last.ret.ret.PROVIDER_SLUG = TokenOf(ImportingProviderPrefix, excluded, s, i)

\* The jobs of the lists of index_jobs_by_provider_slug other than the list of slug.
IndexedElsewhere(job, slug) ==
    \E other \in DOMAIN index_jobs_by_provider_slug :
        other # slug /\ Holds(index_jobs_by_provider_slug[other], job)

\* C9: for an importer job whose trace is retrievable, get_importer_job_variables returns
\* the token as PROVIDER_SLUG when 'Importing provider <token>' occurs exactly once, the
\* sentinel when it does not occur, and raises AssertionError, which ends the run, when it
\* occurs with two or more distinct tokens; a job without slug is in the index-job list of
\* no provider, a job with a slug in the list of that slug only.
C9_ImporterClassification ==
    /\ (last.fn = "get_importer_job_variables" /\ ~Raises(last.arg.trace)) =>
           LET s == last.arg.trace.ret
               occ == Occurrences(ImportingProviderPrefix, ImporterExcluded, s)
           IN /\ Cardinality(occ) = 1 =>
                     last.ret = Return([PROVIDER_SLUG |->
                                           TokenOf(ImportingProviderPrefix, ImporterExcluded, s,
                                                   CHOOSE i \in occ : TRUE)])
              /\ occ = {} => last.ret = Return([PROVIDER_SLUG |-> NoneText])
              /\ Cardinality(TokensIn(ImportingProviderPrefix, ImporterExcluded, s)) >= 2 =>
                     /\ last.ret = Raise("AssertionError")
                     /\ pc = "failed"
                     /\ error = "AssertionError"
    /\ pc \in {"render", "done"} =>
           \A k \in 1..Len(importer_jobs_with_variables) :
               LET job == importer_jobs_with_variables[k][1]
                   slug == importer_jobs_with_variables[k][2].PROVIDER_SLUG
               IN /\ ~IndexedElsewhere(job, slug)
                  /\ slug # NoneText =>
                         /\ slug \in DOMAIN index_jobs_by_provider_slug
                         /\ Holds(index_jobs_by_provider_slug[slug], job)

\* C9 witness: the only importer job had one occurrence of the pattern, with token
\* convert, and is indexed under convert.
C9_Witness ==
    /\ pc = "render"
    /\ Len(importer_jobs_with_variables) = 1
    /\ Cardinality(Occurrences(ImportingProviderPrefix, ImporterExcluded,
                               importer_jobs_with_variables[1][1].trace.ret)) = 1
    /\ importer_jobs_with_variables[1][2] = [PROVIDER_SLUG |-> Convert]
    /\ index_jobs_by_provider_slug = (Convert :> <<importer_jobs_with_variables[1][1]>>)

\* The markers of a schedule that exists: active, inactive.
ExistingScheduleMarkers(project) ==
    {format_pipeline_schedule_link(project, [id |-> 1, active |-> b]) : b \in BOOLEAN}

\* C10: get_pipeline_schedule raises AssertionError, which ends the run, for two or more
\* schedules, returns the schedule when there is one and None when there is none; the row
\* of a fetcher without schedule shows 'Scheduler does not exist', with a title and an
\* icon that are neither those of an active nor those of an inactive schedule.
C10_ScheduleCardinality ==
    /\ last.fn = "get_pipeline_schedule" =>
           /\ Len(last.arg) >= 2 =>
                  /\ last.ret = Raise("AssertionError")
                  /\ pc = "failed"
                  /\ error = "AssertionError"
           /\ Len(last.arg) = 1 => last.ret = Return(last.arg[1])
           /\ Len(last.arg) = 0 => last.ret = Return(None)
    /\ \A k \in 1..Len(tbody) :
           LET project == fetchers_projects[k]
               link == tbody[k].pipeline_schedule_link
           IN pipeline_schedule_by_fetcher_id[project.id] = None =>
                  /\ link.title = "Scheduler does not exist"
                  /\ \A marker \in ExistingScheduleMarkers(project) :
                         link.title # marker.title /\ link.i_class # marker.i_class

\* C10 witness: a row of a fetcher without schedule and a row of a fetcher with an
\* inactive schedule are rendered.
C10_Witness ==
    \E k, n \in 1..Len(tbody) :
        /\ pipeline_schedule_by_fetcher_id[fetchers_projects[k].id] = None
        /\ tbody[k].pipeline_schedule_link.title = "Scheduler does not exist"
        /\ pipeline_schedule_by_fetcher_id[fetchers_projects[n].id] = [id |-> 1, active |-> FALSE]
        /\ tbody[n].pipeline_schedule_link.title = "status: inactive"

\* The number of positions of list that hold x.
NbOccurrences(list, x) == Cardinality({k \in 1..Len(list) : list[k] = x})

\* The elements of a list.
Elements(list) == {list[k] : k \in 1..Len(list)}

\* The name of a project has the fetcher suffix and not the placeholder prefix.
IsFetcherName(name) ==
    /\ Len(name) >= 8
    /\ SubSeq(name, Len(name) - 7, Len(name)) = <<"-","f","e","t","c","h","e","r">>
    /\ ~(Len(name) >= 5 /\ SubSeq(name, 1, 5) = <<"d","u","m","m","y">>)

\* The slug of a project is in the allow-list args.providers.
IsAllowed(name) ==
    \E k \in 1..Len(args.providers) : args.providers[k] = SubSeq(name, 1, Len(name) - 8)

\* C11: a project of the group is in fetchers_projects if and only if its name ends with
\* '-fetcher', does not start with 'dummy' and, when --providers was given, its slug is in
\* args.providers; it is then there exactly once, and fetchers_projects holds nothing else.
C11_EnumeratorFiltering ==
    last.fn = "projects.list" =>
        /\ \A k \in 1..Len(last.arg) :
               LET entity == last.arg[k]
               IN NbOccurrences(fetchers_projects, entity) =
                      IF IsFetcherName(entity.name)
                            /\ (args.providers = <<>> \/ IsAllowed(entity.name))
                      THEN 1 ELSE 0
        /\ Elements(fetchers_projects) \subseteq Elements(last.arg)

\* C11 witness: of a group that holds a documentation project, the placeholder and three
\* fetchers, the run with --providers BIS enumerates bis-fetcher only.
C11_Witness ==
    /\ last.fn = "projects.list"
    /\ Len(last.arg) = 5
    /\ args.providers = <<Bis>>
    /\ Len(fetchers_projects) = 1
    /\ fetchers_projects[1].name = Bis \o FetcherSuffix

\* C12: fetchers_projects is in ascending order of names, and is the same for every order
\* in which the group may hold the same projects.
C12_EnumeratorOrder ==
    last.fn = "projects.list" =>
        /\ \A i, j \in 1..Len(fetchers_projects) :
               i < j => TextLess(fetchers_projects[i].name, fetchers_projects[j].name)
        /\ \A stored \in GroupStorages :
               Elements(stored) = Elements(last.arg) =>
                   SelectFetchers(ProjectsList(stored)) = fetchers_projects

\* C12 witness: the group holds x-fetcher before ecb-fetcher before bis-fetcher, and the
\* run enumerates bis-fetcher, ecb-fetcher, x-fetcher.
C12_Witness ==
    /\ last.fn = "projects.list"
    /\ Len(last.arg) = 3
    /\ last.arg[1].name = <<"x">> \o FetcherSuffix
    /\ last.arg[2].name = Ecb \o FetcherSuffix
    /\ last.arg[3].name = Bis \o FetcherSuffix
    /\ Len(fetchers_projects) = 3
    /\ fetchers_projects[1].name = Bis \o FetcherSuffix
    /\ fetchers_projects[2].name = Ecb \o FetcherSuffix
    /\ fetchers_projects[3].name = <<"x">> \o FetcherSuffix

\* C13: when --providers was given, fetchers_projects is the list of the fetchers whose
\* slug is in args.providers, in the order of the listing; when it was not given, it is
\* the list of all the fetchers.
C13_AllowList ==
    last.fn = "projects.list" =>
        LET fetchers == SelectSeq(last.ret, LAMBDA entity : IsFetcherName(entity.name))
        IN IF args.providers = <<>>
           THEN fetchers_projects = fetchers
           ELSE fetchers_projects = SelectSeq(fetchers, LAMBDA entity : IsAllowed(entity.name))

\* C13 witness: with --providers bis,ecb and a group that holds bis-fetcher, ecb-fetcher
\* and x-fetcher, the run enumerates bis-fetcher, ecb-fetcher.
C13_Witness ==
    /\ last.fn = "projects.list"
    /\ args.providers = <<Bis, Ecb>>
    /\ \E k \in 1..Len(last.arg) : last.arg[k].name = <<"x">> \o FetcherSuffix
    /\ Len(fetchers_projects) = 2
    /\ fetchers_projects[1].name = Bis \o FetcherSuffix
    /\ fetchers_projects[2].name = Ecb \o FetcherSuffix

\* The last n elements of a list.
LastOf(list, n) == SubSeq(list, Len(list) - n + 1, Len(list))

\* The provider search of the row just formatted was answered with nb documents.
ProviderSearchFound(nb) ==
    /\ last.fn = "format_fetcher_tr"
    /\ ~args.disable_solr_info
    /\ "ret" \in DOMAIN last.arg.provider
    /\ nb[Len(last.arg.provider.ret)]

\* C14: when the provider search of a row finds no provider or more than one, the run
\* goes on, a warning is logged, the only query sent for the row is the provider search,
\* and the row shows "?" for the datasets and for the series, and no link to the provider.
C14_AmbiguousEnrichmentIsUnknown ==
    ProviderSearchFound([n \in 0..2 |-> n # 1]) =>
        /\ pc = "render"
        /\ error = "none"
        /\ ~Raises(last.ret)
        /\ last.ret.ret = tbody[Len(tbody)]
        /\ last.ret.ret.nb_datasets = [unknown |-> "?"]
        /\ last.ret.ret.nb_series = [unknown |-> "?"]
        /\ last.ret.ret.ui_link = <<>>
        /\ searches[Len(searches)] = [type |-> "provider", slug |-> last.ret.ret.provider_slug]
        /\ Cardinality({k \in 1..Len(searches) : searches[k].type = "provider"}) = Len(tbody)
        /\ log[Len(log)].level = "warning"
        /\ log[Len(log)].slug = last.ret.ret.provider_slug

\* C14 witness: a run printed its report after the provider search of the first row found
\* nothing, that of the second row found two providers and that of the third found one.
C14_Witness ==
    /\ pc = "done"
    /\ stdout = <<tbody>>
    /\ Len(tbody) = 3
    /\ Len(log) = 2
    /\ log[1] = [level |-> "warning", message |-> "Could not find provider",
                 slug |-> tbody[1].provider_slug]
    /\ log[2] = [level |-> "warning", message |-> "Many providers were found",
                 slug |-> tbody[2].provider_slug]
    /\ tbody[1].nb_datasets = [unknown |-> "?"]
    /\ tbody[2].nb_series = [unknown |-> "?"]
    /\ tbody[3].nb_datasets = [number |-> 0]

\* C15: in a run with --disable-solr-info no query is ever sent to Solr, and every row
\* shows "?" for the datasets and for the series.
C15_EnrichmentBypassed ==
    args.disable_solr_info =>
        /\ searches = <<>>
        /\ \A k \in 1..Len(tbody) :
               /\ tbody[k].nb_datasets = [unknown |-> "?"]
               /\ tbody[k].nb_series = [unknown |-> "?"]

\* C15 witness: a run with --disable-solr-info, made where Solr could be asked, printed a
\* report of three rows.
C15_Witness ==
    /\ world = "solr"
    /\ args.disable_solr_info
    /\ pc = "done"
    /\ Len(tbody) = 3
    /\ stdout = <<tbody>>

\* C16: when the provider search of a row finds exactly one provider and the two counting
\* searches answer, the queries sent for the row are the provider search, then one dataset
\* search and one series search with the code of that provider, and the row shows the two
\* hit counts as numbers, zero included.
C16_SingleMatchCounts ==
    (ProviderSearchFound([n \in 0..2 |-> n = 1])
        /\ ~Raises(last.arg.datasets) /\ ~Raises(last.arg.series)) =>
        LET code == last.arg.provider.ret[1].code
        IN /\ ~Raises(last.ret)
           /\ Len(searches) >= 3
           /\ LastOf(searches, 3) =
                  <<[type |-> "provider", slug |-> last.ret.ret.provider_slug],
                    [type |-> "dataset", provider_code |-> code],
                    [type |-> "series", provider_code |-> code]>>
           /\ last.ret.ret.nb_datasets = [number |-> last.arg.datasets.ret]
           /\ last.ret.ret.nb_series = [number |-> last.arg.series.ret]
           /\ last.ret.ret.ui_link = <<code>>

\* C16 witness: a row shows 0 datasets and 3 series of the provider found for it.
C16_Witness ==
    /\ ProviderSearchFound([n \in 0..2 |-> n = 1])
    /\ ~Raises(last.ret)
    /\ Len(tbody) = 2
    /\ tbody[2].nb_datasets = [number |-> 0]
    /\ tbody[2].nb_series = [number |-> 3]
    /\ LastOf(searches, 2) = <<[type |-> "dataset", provider_code |-> <<"Q">>],
                               [type |-> "series", provider_code |-> <<"Q">>]>>

\* The jobs in the buckets built so far: of the fetchers done and of the one in progress.
BucketedJobs ==
    UNION ({Elements(jobs_by_fetcher_id[id].download) \cup Elements(jobs_by_fetcher_id[id].convert)
            : id \in DOMAIN jobs_by_fetcher_id}
           \cup {Elements(cursor.fetcher_jobs_by_type.download),
                 Elements(cursor.fetcher_jobs_by_type.convert)})

\* C17: without --all-branches a fetcher job whose ref is not master is skipped: its trace
\* is not fetched, nothing is logged for it and it is in no bucket, so that the buckets hold
\* jobs of master only; with --all-branches no job is skipped for its ref.
C17_BranchScope ==
    /\ last.fn \in {"continue", "get_fetcher_job_variables"} =>
           ((last.fn = "continue") <=> (~args.all_branches /\ last.arg.ref # "master"))
    /\ last.fn = "continue" =>
           /\ last.arg \notin BucketedJobs
           /\ last.arg.id \notin LoggedJobIds
           /\ pc = "fetcher_jobs_loop"
    /\ ~args.all_branches => \A job \in BucketedJobs : job.ref = "master"

\* C17 witness: without --all-branches a job of branch dev whose trace is missing was
\* skipped and nothing was logged.
C17_Witness ==
    /\ ~args.all_branches
    /\ last.fn = "continue"
    /\ last.arg.ref = "dev"
    /\ Raises(last.arg.trace)
    /\ log = <<>>

\* The ids of the jobs of a list grow: the jobs are in the order the source returned them.
InSourceOrder(list) == \A i, j \in 1..Len(list) : i < j => list[i].id < list[j].id

\* The first 3 elements of a list, or all of them.
FirstThree(list) == [k \in 1..(IF Len(list) < 3 THEN Len(list) ELSE 3) |-> list[k]]

\* The anchors of the jobs of a list.
LinksTo(project, jobs) ==
    [k \in 1..Len(jobs) |-> format_job_link(project, jobs[k])]

\* C18: the jobs of each bucket (download, convert, index) are in the order the source
\* returned them, and a row shows, for each bucket that is not empty, the first 3 jobs of
\* the bucket in that order.
C18_BucketOrderAndFirstThree ==
    /\ \A id \in DOMAIN jobs_by_fetcher_id :
           /\ InSourceOrder(jobs_by_fetcher_id[id].download)
           /\ InSourceOrder(jobs_by_fetcher_id[id].convert)
    /\ \A slug \in DOMAIN index_jobs_by_provider_slug :
           InSourceOrder(index_jobs_by_provider_slug[slug])
    /\ \A k \in 1..Len(tbody) :
           LET project == fetchers_projects[k]
               buckets == jobs_by_fetcher_id[project.id]
               slug == tbody[k].provider_slug
           IN /\ buckets.download # <<>> =>
                     tbody[k].download_links = LinksTo(project, FirstThree(buckets.download))
              /\ buckets.convert # <<>> =>
                     tbody[k].conversion_links = LinksTo(project, FirstThree(buckets.convert))
              /\ slug \in DOMAIN index_jobs_by_provider_slug =>
                     tbody[k].indexation_links =
                         LinksTo(ImporterProject, FirstThree(index_jobs_by_provider_slug[slug]))

\* The anchor a cell shows when there is no job to show.
NoneFoundMarker(project, title) ==
    <<[href |-> [project |-> project.name, page |-> "jobs"],
       title |-> title,
       i_classes |-> "fa-question-circle text-warning"]>>

\* C19: a provider whose slug no importer job was classified with has no list in
\* index_jobs_by_provider_slug, which holds no empty list, and its row shows the single
\* marker 'No indexation jobs found', a link to the jobs of the importer; an empty download
\* or convert bucket is shown as the single marker 'No download jobs found' or
\* 'No conversion jobs found', a link to the jobs of the fetcher.
C19_NoneFoundMarkers ==
    /\ \A slug \in DOMAIN index_jobs_by_provider_slug : index_jobs_by_provider_slug[slug] # <<>>
    /\ \A k \in 1..Len(tbody) :
           LET project == fetchers_projects[k]
               buckets == jobs_by_fetcher_id[project.id]
               slug == tbody[k].provider_slug
           IN /\ (\A n \in 1..Len(importer_jobs_with_variables) :
                      importer_jobs_with_variables[n][2].PROVIDER_SLUG # slug) =>
                     /\ slug \notin DOMAIN index_jobs_by_provider_slug
                     /\ tbody[k].indexation_links =
                            NoneFoundMarker(ImporterProject, "No indexation jobs found")
              /\ buckets.download = <<>> =>
                     tbody[k].download_links =
                         NoneFoundMarker(project, "No download jobs found")
              /\ buckets.convert = <<>> =>
                     tbody[k].conversion_links =
                         NoneFoundMarker(project, "No conversion jobs found")

\* C19 witness: importer jobs were classified with the slug bis and none with the slug
\* ecb: the row of bis links to an index job, the row of ecb shows the three markers.
C19_Witness ==
    /\ pc = "done"
    /\ Bis \in DOMAIN index_jobs_by_provider_slug
    /\ Len(tbody) = 3
    /\ NbJobLinks(tbody[1].indexation_links) = 1
    /\ tbody[2].provider_slug = Ecb
    /\ tbody[2].indexation_links = NoneFoundMarker(ImporterProject, "No indexation jobs found")
    /\ tbody[2].download_links =
           NoneFoundMarker(fetchers_projects[2], "No download jobs found")
    /\ tbody[2].conversion_links =
           NoneFoundMarker(fetchers_projects[2], "No conversion jobs found")

\* The statuses that have an icon of their own.
StatusVocabulary == {"success", "failed", "canceled", "running", "stuck"}

\* The icon of a job that started and has the given status.
IconOf(status) ==
    format_job_link(ImporterProject,
                    [id |-> 1, ref |-> "master", status |-> status, started_at |-> <<"t">>,
                     trace |-> Return(<<>>)]).i_classes

\* C20: the icon of a job whose derived status is success, failed, canceled, running or
\* stuck differs from the icons of the other four; the icon of a job of any other derived
\* status is the icon of success.
C20_StatusMarkers ==
    last.fn = "format_job_link" =>
        IF last.ret.status \in StatusVocabulary
        THEN \A status \in StatusVocabulary \ {last.ret.status} :
                 last.ret.i_classes # IconOf(status)
        ELSE last.ret.i_classes = IconOf("success")

\* C20 witness: a job that started and is reported as pending was given the icon of
\* success.
C20_Witness ==
    /\ last.fn = "format_job_link"
    /\ last.arg[2].status = "pending"
    /\ last.ret.status = "pending"
    /\ last.ret.i_classes = "fa-check-circle text-success"

(***************************************************************************)
(* Report structure.                                                       *)
(***************************************************************************)
\* The slugs the report highlights.
HighlightSet == {<<"b","i","s">>, <<"e","c","b">>, <<"e","u","r","o","s","t","a","t">>,
                 <<"i","m","f">>, <<"o","e","c","d">>, <<"i","l","o">>, <<"w","t","o">>,
                 <<"w","b">>}

\* C21: the rows written are one per enumerated provider, in the order of enumeration:
\* the k-th row is the row of the k-th provider, carries the ordinal k (from 1) and has
\* the star mark exactly when its slug is in the highlight set; the report printed at the
\* end of the run holds a row for every enumerated provider.
C21_OneRowPerProviderInOrder ==
    /\ Len(tbody) <= Len(fetchers_projects)
    /\ \A k \in 1..Len(tbody) :
           LET name == fetchers_projects[k].name
           IN /\ tbody[k].provider_slug = SubSeq(name, 1, Len(name) - 8)
              /\ tbody[k].provider_number = k
              /\ tbody[k].star <=> (tbody[k].provider_slug \in HighlightSet)
    /\ \A j, k \in 1..Len(tbody) : j # k => tbody[j].provider_slug # tbody[k].provider_slug
    /\ pc = "done" => /\ stdout = <<tbody>>
                      /\ Len(tbody) = Len(fetchers_projects)

\* C21 witness: a report of three rows was printed, whose first two rows have the star
\* mark and whose third row, of a provider outside the highlight set, has not.
C21_Witness ==
    /\ pc = "done"
    /\ Len(stdout[1]) = 3
    /\ stdout[1][1].star /\ stdout[1][1].provider_number = 1
    /\ stdout[1][2].star /\ stdout[1][2].provider_number = 2
    /\ ~stdout[1][3].star /\ stdout[1][3].provider_number = 3
    /\ stdout[1][3].provider_slug = <<"x">>

(***************************************************************************)
(* Row independence.                                                       *)
(***************************************************************************)
\* The values of a dict.
Values(dict) == {dict[key] : key \in DOMAIN dict}

\* An importer job of a second run.
AnotherJob == [id |-> 0, ref |-> "master", status |-> "failed", started_at |-> <<"t">>,
               trace |-> Return(<<>>)]

\* The dicts of a second run that agrees with this one on the data of the project and
\* of its slug, and holds other data for the other providers: no schedule or an inactive
\* one, empty buckets or buckets of other fetcher jobs, other lists of index jobs, under
\* other slugs too.
OtherRuns(project, slug) ==
    [schedules : {[id \in DOMAIN pipeline_schedule_by_fetcher_id |->
                      IF id = project.id THEN pipeline_schedule_by_fetcher_id[id] ELSE v]
                  : v \in {None, [id |-> 2, active |-> FALSE]}},
     jobs : {[id \in DOMAIN jobs_by_fetcher_id |->
                 IF id = project.id THEN jobs_by_fetcher_id[id] ELSE b]
             : b \in {EmptyBuckets,
                       [download |-> jobs_by_fetcher_id[project.id].convert,
                        convert |-> jobs_by_fetcher_id[project.id].download \o <<AnotherJob>>]}},
     index : {[s \in (keys \cup (DOMAIN index_jobs_by_provider_slug \cap {slug})) |->
                  IF s = slug THEN index_jobs_by_provider_slug[s] ELSE list]
              : keys \in SUBSET ((DOMAIN index_jobs_by_provider_slug \cup {<<"q">>}) \ {slug}),
                list \in {<<AnotherJob>>} \cup Values(index_jobs_by_provider_slug)}]

\* The entries of the list that are classified with the slug.
ClassifiedWith(jobs_with_variables, slug) ==
    SelectSeq(jobs_with_variables, LAMBDA entry : entry[2].PROVIDER_SLUG = slug)

\* C22: the row of a provider P is the row any second run over the same providers writes
\* for P, when that run agrees on P's schedule, on P's buckets of fetcher jobs, on the
\* index jobs of P's slug and on Solr's answers for P, whatever the data of the other
\* providers; and the index jobs of P's slug are those the importer jobs classified with
\* P's slug give alone.
C22_RowIndependence ==
    (last.fn = "format_fetcher_tr" /\ ~Raises(last.ret)) =>
        LET k == Len(tbody)
            P == fetchers_projects[k]
            slug == tbody[k].provider_slug
        IN /\ tbody[k] = last.ret.ret
           /\ \A other \in OtherRuns(P, slug) :
                  DashboardRowOf(P, k, other.schedules, other.jobs, other.index, last.arg)
                      = Return(tbody[k])
           /\ GetList(index_jobs_by_provider_slug, slug)
                  = GetList(IndexJobs(ClassifiedWith(importer_jobs_with_variables, slug)), slug)

\* C22 witness: the row of ecb was written in a run where importer jobs were classified
\* with the slug of another provider and with a slug of no provider, and none with ecb.
C22_Witness ==
    /\ last.fn = "format_fetcher_tr"
    /\ ~Raises(last.ret)
    /\ Len(tbody) = 2
    /\ tbody[2].provider_slug = Ecb
    /\ Bis \in DOMAIN index_jobs_by_provider_slug
    /\ <<"z">> \in DOMAIN index_jobs_by_provider_slug
    /\ Ecb \notin DOMAIN index_jobs_by_provider_slug

(***************************************************************************)
(* End to end.                                                             *)
(***************************************************************************)
\* The classification phases are over for three providers: each has exactly one download
\* job, which succeeded and has a start time, and no convert job; no importer job was
\* classified with the slug of a provider; enrichment is disabled.
ThreeDownloadsScenario ==
    /\ pc \in {"render", "done", "failed"}
    /\ args.disable_solr_info
    /\ Len(fetchers_projects) = 3
    /\ DOMAIN jobs_by_fetcher_id = {fetchers_projects[k].id : k \in 1..3}
    /\ \A k \in 1..3 :
           LET buckets == jobs_by_fetcher_id[fetchers_projects[k].id]
               name == fetchers_projects[k].name
           IN /\ Len(buckets.download) = 1
              /\ buckets.download[1].status = "success"
              /\ buckets.download[1].started_at # NoneText
              /\ buckets.convert = <<>>
              /\ \A n \in 1..Len(importer_jobs_with_variables) :
                     importer_jobs_with_variables[n][2].PROVIDER_SLUG
                         # SubSeq(name, 1, Len(name) - 8)

\* C23: with three providers that each have exactly one download job (succeeded, with a
\* start time), no convert job and no importer job of their slug, and enrichment
\* disabled, the run does not fail, and the report it prints has exactly three rows, each
\* with exactly one download link marked as success, the marker of no conversion job, the
\* marker of no indexation job and unknown counts.
C23_ThreeProvidersEndToEnd ==
    ThreeDownloadsScenario =>
        /\ pc # "failed"
        /\ error = "none"
        /\ searches = <<>>
        /\ pc = "done" =>
              /\ stdout = <<tbody>>
              /\ Len(tbody) = 3
        /\ \A k \in 1..Len(tbody) :
               LET row == tbody[k]
                   project == fetchers_projects[k]
               IN /\ Len(row.download_links) = 1
                  /\ row.download_links[1].href =
                         [project |-> project.name,
                          job |-> jobs_by_fetcher_id[project.id].download[1].id]
                  /\ row.download_links[1].status = "success"
                  /\ row.download_links[1].i_classes = "fa-check-circle text-success"
                  /\ row.conversion_links = NoneFoundMarker(project, "No conversion jobs found")
                  /\ row.indexation_links =
                         NoneFoundMarker(ImporterProject, "No indexation jobs found")
                  /\ row.nb_datasets = [unknown |-> "?"]
                  /\ row.nb_series = [unknown |-> "?"]

\* C23 witness: the run of the scenario has completed and has printed three rows.
C23_Witness ==
    /\ ThreeDownloadsScenario
    /\ pc = "done"
    /\ Len(stdout[1]) = 3
    /\ \A k \in 1..3 : Len(stdout[1][k].download_links) = 1

(***************************************************************************)
(* Unknown labels.                                                         *)
(***************************************************************************)
\* The jobs of the download buckets and of the convert buckets built so far.
InBucket(name) ==
    UNION ({Elements(jobs_by_fetcher_id[id][name]) : id \in DOMAIN jobs_by_fetcher_id}
           \cup {Elements(cursor.fetcher_jobs_by_type[name])})

\* C28: a fetcher job of a considered branch whose trace gives exactly one label goes to
\* the bucket its label names when the label is download or convert; with any other label
\* the run ends with the error of the unknown bucket key and prints no report. So no job
\* is in two buckets, and in a completed run the own label of each job of a bucket is the
\* name of the bucket.
C28_UnknownLabelAborts ==
    /\ (last.fn = "get_fetcher_job_variables" /\ ~Raises(last.ret) /\ last.ret.ret # None) =>
           LET label == last.ret.ret.JOB
           IN IF label = <<"d","o","w","n","l","o","a","d">>
              THEN pc = "fetcher_jobs_loop" /\ last.arg \in InBucket("download")
              ELSE IF label = <<"c","o","n","v","e","r","t">>
              THEN pc = "fetcher_jobs_loop" /\ last.arg \in InBucket("convert")
              ELSE /\ pc = "failed"
                   /\ error = "KeyError"
                   /\ last.arg \notin InBucket("download") \cup InBucket("convert")
    /\ error = "KeyError" => pc = "failed" /\ stdout = <<>> /\ tbody = <<>>
    /\ InBucket("download") \cap InBucket("convert") = {}
    /\ pc = "done" =>
           /\ \A job \in InBucket("download") :
                  get_fetcher_job_variables(job)
                      = Return([JOB |-> <<"d","o","w","n","l","o","a","d">>])
           /\ \A job \in InBucket("convert") :
                  get_fetcher_job_variables(job)
                      = Return([JOB |-> <<"c","o","n","v","e","r","t">>])

\* C28 witness: after a download job was put in its bucket, a job of master whose only
\* label is validate has ended the run with the error of the unknown key.
C28_Witness ==
    /\ pc = "failed"
    /\ error = "KeyError"
    /\ last.fn = "get_fetcher_job_variables"
    /\ last.arg.ref = "master"
    /\ last.ret = Return([JOB |-> <<"v","a","l","i","d","a","t","e">>])
    /\ InBucket("download") # {}
    /\ stdout = <<>>

(***************************************************************************)
(* Phase ordering.                                                         *)
(***************************************************************************)
\* The ids of the enumerated fetchers.
FetcherIds == {fetchers_projects[k].id : k \in 1..Len(fetchers_projects)}

\* The schedule of every fetcher is resolved; the jobs of every fetcher are classified.
SchedulesResolved == DOMAIN pipeline_schedule_by_fetcher_id = FetcherIds
FetcherJobsClassified == DOMAIN jobs_by_fetcher_id = FetcherIds

\* C29: the phases of a run are in order. While fetcher jobs are listed and classified,
\* every schedule is resolved; while importer jobs are listed and classified, the jobs of
\* every fetcher are classified too; when a row is formatted or a query has been sent to
\* Solr, every schedule, fetcher job and importer job has been fetched and classified. So
\* a run that a schedule or a classification ends has sent no query to Solr.
C29_PhaseOrdering ==
    /\ pc \in {"fetcher_jobs", "fetcher_jobs_loop", "fetcher_job_body"} =>
           /\ SchedulesResolved
           /\ importer_jobs_with_variables = <<>>
           /\ searches = <<>>
    /\ last.fn \in {"get_fetcher_job_variables", "continue"} =>
           /\ SchedulesResolved
           /\ importer_jobs_with_variables = <<>>
           /\ searches = <<>>
    /\ (pc \in {"importer_jobs_loop", "importer_job_body"}
        \/ last.fn = "get_importer_job_variables") =>
           /\ SchedulesResolved
           /\ FetcherJobsClassified
           /\ searches = <<>>
    /\ last.fn = "get_pipeline_schedule" =>
           /\ jobs_by_fetcher_id = EmptyDict
           /\ importer_jobs_with_variables = <<>>
           /\ searches = <<>>
    /\ (searches # <<>> \/ last.fn = "format_fetcher_tr" \/ pc \in {"render", "done"}) =>
           /\ SchedulesResolved
           /\ FetcherJobsClassified
           /\ cursor.todo = 0
           /\ cursor.job = None
           /\ index_jobs_by_provider_slug = IndexJobs(importer_jobs_with_variables)
    /\ (pc = "failed" /\ last.fn \in {"get_pipeline_schedule", "get_fetcher_job_variables",
                                      "get_importer_job_variables"}) =>
           searches = <<>>

\* C29 witness: with enrichment enabled, queries were sent to Solr in a run that had
\* resolved three schedules and classified importer jobs.
C29_Witness ==
    /\ ~args.disable_solr_info
    /\ searches # <<>>
    /\ Len(fetchers_projects) = 3
    /\ SchedulesResolved
    /\ FetcherJobsClassified
    /\ Len(importer_jobs_with_variables) >= 2
    /\ index_jobs_by_provider_slug # EmptyDict

(***************************************************************************)
(* Importer-job correlation.                                               *)
(***************************************************************************)
\* The ids of the importer jobs classified with the slug.
IdsClassifiedWith(slug) ==
    {importer_jobs_with_variables[n][1].id
     : n \in {m \in 1..Len(importer_jobs_with_variables)
              : importer_jobs_with_variables[m][2].PROVIDER_SLUG = slug}}

\* The ids of the jobs the anchors of a cell link to.
LinkedJobIds(links) ==
    {links[n].href.job : n \in {m \in 1..Len(links) : "job" \in DOMAIN links[m].href}}

\* The slugs of the enumerated providers.
EnumeratedSlugs ==
    {SubSeq(fetchers_projects[k].name, 1, Len(fetchers_projects[k].name) - 8)
     : k \in 1..Len(fetchers_projects)}

\* C30: every index list is non-empty and holds, once each, importer jobs whose own trace
\* gives the slug of the list, so that an importer job is in the list of at most one slug;
\* once the index is built every importer job classified with a slug is in the list of
\* that slug, whatever its branch and whether or not --all-branches is given; a row links
\* only to importer jobs of the slug of its provider, and an importer job whose slug is
\* the slug of no enumerated provider is linked from no row.
C30_ImporterJobCorrelation ==
    /\ \A slug \in DOMAIN index_jobs_by_provider_slug :
           LET list == index_jobs_by_provider_slug[slug]
           IN /\ list # <<>>
              /\ slug # NoneText
              /\ \A m, n \in 1..Len(list) : m # n => list[m].id # list[n].id
              /\ \A n \in 1..Len(list) :
                     /\ get_importer_job_variables(list[n]) = Return([PROVIDER_SLUG |-> slug])
                     /\ list[n].id \in IdsClassifiedWith(slug)
                     /\ \A other \in DOMAIN index_jobs_by_provider_slug \ {slug} :
                            list[n] \notin Elements(index_jobs_by_provider_slug[other])
    /\ pc \in {"render", "done"} =>
           \A n \in 1..Len(importer_jobs_with_variables) :
               LET job == importer_jobs_with_variables[n][1]
                   slug == importer_jobs_with_variables[n][2].PROVIDER_SLUG
               IN slug # NoneText =>
                      /\ slug \in DOMAIN index_jobs_by_provider_slug
                      /\ job \in Elements(index_jobs_by_provider_slug[slug])
    /\ (last.fn = "get_importer_job_variables" /\ ~Raises(last.ret)) =>
           importer_jobs_with_variables[Len(importer_jobs_with_variables)]
               = <<last.arg, last.ret.ret>>
    /\ \A k \in 1..Len(tbody) :
           /\ LinkedJobIds(tbody[k].indexation_links) \subseteq
                  IdsClassifiedWith(tbody[k].provider_slug)
           /\ \A n \in 1..Len(importer_jobs_with_variables) :
                  importer_jobs_with_variables[n][2].PROVIDER_SLUG \notin EnumeratedSlugs =>
                      importer_jobs_with_variables[n][1].id
                          \notin LinkedJobIds(tbody[k].indexation_links)

\* C30 witness: without --all-branches, a report was printed whose first row links to an
\* importer job of branch dev classified with the slug of its provider, while another
\* importer job, classified with a slug of no provider, is in the index and in no row.
C30_Witness ==
    /\ pc = "done"
    /\ ~args.all_branches
    /\ Len(tbody) = 3
    /\ \E n \in 1..Len(importer_jobs_with_variables) :
           /\ importer_jobs_with_variables[n][1].ref = "dev"
           /\ importer_jobs_with_variables[n][2].PROVIDER_SLUG = tbody[1].provider_slug
           /\ importer_jobs_with_variables[n][1].id \in LinkedJobIds(tbody[1].indexation_links)
    /\ <<"z">> \in DOMAIN index_jobs_by_provider_slug
    /\ \A k \in 1..3 :
           LinkedJobIds(tbody[k].indexation_links)
               \cap JobIds(index_jobs_by_provider_slug[<<"z">>]) = {}

(***************************************************************************)
(* configure-ci-for-provider.py: parse_time, the type of --schedule-time.  *)
(***************************************************************************)
\* Number of parts, joined by ':', the values of --schedule-time are made of.
MaxTimeParts == 3

Digits == <<"0","1","2","3","4","5","6","7","8","9">>
IsDigit(c) == \E n \in 1..10 : Digits[n] = c
DigitValue(c) == (CHOOSE n \in 1..10 : Digits[n] = c) - 1

\* The number the digits of a text denote, underscores left out.
RECURSIVE DigitsValue(_, _)
DigitsValue(text, value) ==
    IF text = <<>> THEN value
    ELSE DigitsValue(Tail(text),
                     IF Head(text) = "_" THEN value ELSE 10 * value + DigitValue(Head(text)))

\* int(text), base 10: blanks around the literal are dropped, one sign may come first,
\* then digits, with single underscores between digits; anything else is a ValueError.
int(text) ==
    LET literal == strip(text)
        signed == literal # <<>> /\ literal[1] \in {"+", "-"}
        body == IF signed THEN Tail(literal) ELSE literal
        well_formed ==
            /\ body # <<>>
            /\ \A k \in 1..Len(body) : IsDigit(body[k]) \/ body[k] = "_"
            /\ IsDigit(body[1]) /\ IsDigit(body[Len(body)])
            /\ \A k \in 1..(Len(body) - 1) : ~(body[k] = "_" /\ body[k + 1] = "_")
    IN IF ~well_formed THEN Raise("ValueError")
       ELSE IF signed /\ literal[1] = "-" THEN Return(0 - DigitsValue(body, 0))
       ELSE Return(DigitsValue(body, 0))

\* repr(text) of a text without quote, backslash or control character.
repr(text) == <<"'">> \o text \o <<"'">>

\* ValueError('Invalid time {!r}'.format(time))
InvalidTime(time) ==
    [raises |-> "ValueError",
     message |-> <<"I","n","v","a","l","i","d"," ","t","i","m","e"," ">> \o repr(time)]

\* A variant of parse_time that reads the first two parts of a time of more parts.
parse_time_first_two(time) ==
    LET parts == split(time, ":")
        exc == InvalidTime(time)
    IN IF Len(parts) < 2 THEN exc
       ELSE LET hour == int(parts[1])
                minute == int(parts[2])
            IN IF Raises(hour) \/ Raises(minute) THEN exc
               ELSE IF hour.ret < 0 \/ hour.ret > 23 \/ minute.ret < 0 \/ minute.ret > 59
               THEN exc
               ELSE Return(<<hour.ret, minute.ret>>)

\* parse_time: the (hour, minute) of a text "hour:minute", or the ValueError raised.
parse_time(time) ==
    LET parts == split(time, ":")
        exc == InvalidTime(time)
    IN IF Len(parts) # 2 THEN exc
       ELSE LET hour == int(parts[1])
                minute == int(parts[2])
            IN IF Raises(hour) \/ Raises(minute) THEN exc
               ELSE IF hour.ret < 0 \/ hour.ret > 23 \/ minute.ret < 0 \/ minute.ret > 59
               THEN exc
               ELSE Return(<<hour.ret, minute.ret>>)

\* The parts of the values of --schedule-time: empty, the ends of the ranges of hours and
\* of minutes and their neighbours, signs, blanks, underscores, leading zeros, a letter.
TimeParts ==
    {<<>>, <<"0">>, <<"1">>, <<"2","3">>, <<"2","4">>, <<"5","9">>, <<"6","0">>,
     <<"9","9">>, <<"-","1">>, <<"-","0">>, <<" ","5">>, <<"+","7">>, <<"1","_","0">>,
     <<"_","1">>, <<"0","0","7">>, <<"x">>}

\* The parts of a list joined by ':'.
RECURSIVE JoinTime(_)
JoinTime(parts) ==
    IF Len(parts) = 1 THEN parts[1]
    ELSE parts[1] \o <<":">> \o JoinTime(Tail(parts))

\* The values of --schedule-time of the model.
Times == {JoinTime(parts) : parts \in UNION {[1..n -> TimeParts] : n \in 1..MaxTimeParts}}

\* The command line is about to be parsed with some value of --schedule-time.
InitParseTime ==
    /\ world = "parse_time"
    /\ pc = "start"
    /\ args \in [schedule_time : Times]
    /\ fetchers_projects = <<>>
    /\ pipeline_schedule_by_fetcher_id = EmptyDict
    /\ jobs_by_fetcher_id = EmptyDict
    /\ importer_jobs_with_variables = <<>>
    /\ index_jobs_by_provider_slug = EmptyDict
    /\ tbody = <<>>
    /\ stdout = <<>>
    /\ error = "none"
    /\ log = <<>>
    /\ searches = <<>>
    /\ cursor = IdleCursor
    /\ last = NoCall
    /\ gitlab = Untouched

\* argparse converts the value of --schedule-time with parse_time; a ValueError makes it
\* end the process with a usage error.
ParseTime ==
    /\ pc = "start"
    /\ LET r == parse_time(args.schedule_time)
       IN /\ last' = [fn |-> "parse_time", arg |-> args.schedule_time, ret |-> r]
          /\ pc' = IF Raises(r) THEN "usage_error" ELSE "parsed"
    /\ UNCHANGED <<args, fetchers_projects, pipeline_schedule_by_fetcher_id, jobs_by_fetcher_id,
                   importer_jobs_with_variables, index_jobs_by_provider_slug, tbody, stdout,
                   error, log, searches, cursor, world, gitlab>>

NextParseTime == ParseTime

SpecParseTime == InitParseTime /\ [][NextParseTime]_vars

\* The decimal writing of a natural number.
RECURSIVE DecimalOf(_)
DecimalOf(n) ==
    IF n < 10 THEN <<Digits[n + 1]>> ELSE Append(DecimalOf(n \div 10), Digits[(n % 10) + 1])

\* The text without the characters of the set.
Without(text, chars) == SelectSeq(text, LAMBDA c : c \notin chars)

\* The text without its leading zeros, one digit kept.
RECURSIVE NoLeadingZeros(_)
NoLeadingZeros(text) ==
    IF Len(text) > 1 /\ text[1] = "0" THEN NoLeadingZeros(Tail(text)) ELSE text

\* The text is a writing of the natural number n that parses as an integer: blanks
\* around, an optional sign (minus for zero only), then digits grouped by single
\* underscores, which written without underscores and leading zeros are the decimal
\* writing of n.
Denotes(text, n) ==
    \E first, end \in 1..Len(text) :
        /\ first <= end
        /\ \A k \in 1..(first - 1) : text[k] \in {" ", "\t", "\n", "\r"}
        /\ \A k \in (end + 1)..Len(text) : text[k] \in {" ", "\t", "\n", "\r"}
        /\ \E from \in {first, first + 1} :
              /\ from <= end
              /\ from = first + 1 => (text[first] = "+" \/ (text[first] = "-" /\ n = 0))
              /\ text[from] # "_" /\ text[end] # "_"
              /\ \A k \in from..end : text[k] \in {"_"} \cup {Digits[d] : d \in 1..10}
              /\ \A k \in from..(end - 1) : text[k] = "_" => text[k + 1] # "_"
              /\ NoLeadingZeros(Without(SubSeq(text, from, end), {"_"})) = DecimalOf(n)

\* The positions of the colons of a text.
Colons(text) == {k \in 1..Len(text) : text[k] = ":"}

\* C25: parse_time returns (hour, minute) exactly when the text has one colon, the text
\* before it parses as an integer hour of 0..23 and the text after it as an integer
\* minute of 0..59; for every other text it raises the ValueError whose message is
\* 'Invalid time ' followed by the repr of the text.
C25_ParseTime ==
    last.fn = "parse_time" =>
        LET time == last.arg
            valid == {hm \in (0..23) \X (0..59) :
                         /\ Cardinality(Colons(time)) = 1
                         /\ LET colon == CHOOSE k \in Colons(time) : TRUE
                            IN /\ Denotes(SubSeq(time, 1, colon - 1), hm[1])
                               /\ Denotes(SubSeq(time, colon + 1, Len(time)), hm[2])}
        IN IF valid # {}
           THEN /\ Cardinality(valid) = 1
                /\ last.ret = Return(CHOOSE hm \in valid : TRUE)
                /\ pc = "parsed"
           ELSE /\ last.ret =
                       [raises |-> "ValueError",
                        message |-> <<"I","n","v","a","l","i","d"," ","t","i","m","e"," ","'">>
                                        \o time \o <<"'">>]
                /\ pc = "usage_error"

\* C25 witness: the time 23:59 was parsed into (23, 59).
C25_Witness ==
    /\ last.fn = "parse_time"
    /\ last.arg = <<"2","3",":","5","9">>
    /\ last.ret = Return(<<23, 59>>)

(***************************************************************************)
(* create-repositories-for-provider.py, run several times for one slug.    *)
(***************************************************************************)
\* Number of times the script is run.
MaxRuns == 3

\* The text holds the searched text.
Contains(text, searched) ==
    \E k \in 1..(Len(text) - Len(searched) + 1) :
        SubSeq(text, k, k + Len(searched) - 1) = searched

FetchersNamespace == <<"d","b","n","o","m","i","c","s","-","f","e","t","c","h","e","r","s">>
SourceDataNamespace ==
    <<"d","b","n","o","m","i","c","s","-","s","o","u","r","c","e","-","d","a","t","a">>
JsonDataNamespace ==
    <<"d","b","n","o","m","i","c","s","-","j","s","o","n","-","d","a","t","a">>
SourceDataSuffix == <<"-","s","o","u","r","c","e","-","d","a","t","a">>
JsonDataSuffix == <<"-","j","s","o","n","-","d","a","t","a">>

\* gl.namespaces.list(search=name): the namespaces whose name holds the searched text.
namespaces_list(search) == {namespace \in gitlab.namespaces : Contains(namespace, search)}

\* A variant of projects_list that finds nothing.
projects_list_nothing(search) == {}

\* gl.projects.list(search=name): the projects whose name holds the searched text.
projects_list(search) == {project \in gitlab.projects : Contains(project.name, search)}

\* The namespaces GitLab may hold: the three of DBnomics, any of which may be missing,
\* and one more whose name holds the name of the fetchers namespace.
NamespaceSets ==
    SUBSET {FetchersNamespace, SourceDataNamespace, JsonDataNamespace,
            FetchersNamespace \o <<"-","o","l","d">>}

\* The projects GitLab may hold before the first run: repositories of the provider, and
\* the fetcher of a provider whose slug ends with the slug of the provider.
ProjectSets ==
    SUBSET {[name |-> Bis \o FetcherSuffix, namespace |-> FetchersNamespace],
            [name |-> Bis \o SourceDataSuffix, namespace |-> SourceDataNamespace],
            [name |-> <<"a">> \o Bis \o FetcherSuffix, namespace |-> FetchersNamespace]}

\* The first run is about to start, for the slug bis or for a slug with a capital.
InitCreate ==
    /\ world = "create_repositories"
    /\ pc = "start"
    /\ args \in [provider_slug : {Bis, <<"B","i","s">>}]
    /\ gitlab \in [namespaces : NamespaceSets, projects : ProjectSets, triggers : {<<>>},
                   creates : {<<>>}, pipelines : {<<>>}]
    /\ cursor = [run |-> 1, exits |-> <<>>]
    /\ fetchers_projects = <<>>
    /\ pipeline_schedule_by_fetcher_id = EmptyDict
    /\ jobs_by_fetcher_id = EmptyDict
    /\ importer_jobs_with_variables = <<>>
    /\ index_jobs_by_provider_slug = EmptyDict
    /\ tbody = <<>>
    /\ stdout = <<>>
    /\ error = "none"
    /\ log = <<>>
    /\ searches = <<>>
    /\ last = NoCall

\* main() up to the login: the slug must be in lower case (else the parser ends the
\* process) and the token must be set (else main returns 1).
CreateStart ==
    /\ pc = "start"
    /\ IF args.provider_slug # lower(args.provider_slug)
       THEN pc' = "usage_error" /\ UNCHANGED log
       ELSE \/ /\ pc' = "returned"
               /\ log' = Append(log, [level |-> "error", run |-> cursor.run])
            \/ /\ pc' = "create_fetcher"
               /\ UNCHANGED log
    /\ last' = NoCall
    /\ UNCHANGED <<args, fetchers_projects, pipeline_schedule_by_fetcher_id, jobs_by_fetcher_id,
                   importer_jobs_with_variables, index_jobs_by_provider_slug, tbody, stdout,
                   error, searches, cursor, world, gitlab>>

\* One of the three blocks of main(): the namespace is searched and must be the only one
\* found; the project is searched and, when none is found, created, which may fail.
CreateRepository(namespace_name, project_name, then) ==
    LET namespaces == namespaces_list(namespace_name)
        existing_projects == projects_list(project_name)
        project == [name |-> project_name, namespace |-> CHOOSE n \in namespaces : TRUE]
    IN IF Cardinality(namespaces) # 1
       THEN /\ Abort("AssertionError")
            /\ last' = [fn |-> "namespaces.list", arg |-> namespace_name, ret |-> namespaces]
            /\ UNCHANGED <<gitlab, log>>
       ELSE IF existing_projects # {}
       THEN /\ pc' = then
            /\ last' = [fn |-> "projects.list", arg |-> project_name, ret |-> existing_projects]
            /\ log' = Append(log, [level |-> "info", run |-> cursor.run])
            /\ UNCHANGED <<gitlab, error>>
       ELSE /\ last' = [fn |-> "projects.create", arg |-> project]
            /\ \/ /\ Abort("GitlabCreateError")
                  /\ gitlab' = [gitlab EXCEPT !.creates = Append(@, [call |-> project,
                                                                     created |-> FALSE])]
                  /\ UNCHANGED log
               \/ /\ gitlab' = [gitlab EXCEPT !.creates = Append(@, [call |-> project,
                                                                     created |-> TRUE]),
                                              !.projects = @ \cup {project}]
                  /\ pc' = then
                  /\ log' = Append(log, [level |-> "info", run |-> cursor.run])
                  /\ UNCHANGED error

CreateFetcherRepository ==
    /\ pc = "create_fetcher"
    /\ CreateRepository(FetchersNamespace, args.provider_slug \o FetcherSuffix,
                        "create_source_data")
    /\ UNCHANGED <<args, fetchers_projects, pipeline_schedule_by_fetcher_id, jobs_by_fetcher_id,
                   importer_jobs_with_variables, index_jobs_by_provider_slug, tbody, stdout,
                   searches, cursor, world>>

CreateSourceDataRepository ==
    /\ pc = "create_source_data"
    /\ CreateRepository(SourceDataNamespace, args.provider_slug \o SourceDataSuffix,
                        "create_json_data")
    /\ UNCHANGED <<args, fetchers_projects, pipeline_schedule_by_fetcher_id, jobs_by_fetcher_id,
                   importer_jobs_with_variables, index_jobs_by_provider_slug, tbody, stdout,
                   searches, cursor, world>>

\* The third block; then main() returns 0.
CreateJsonDataRepository ==
    /\ pc = "create_json_data"
    /\ CreateRepository(JsonDataNamespace, args.provider_slug \o JsonDataSuffix, "done")
    /\ UNCHANGED <<args, fetchers_projects, pipeline_schedule_by_fetcher_id, jobs_by_fetcher_id,
                   importer_jobs_with_variables, index_jobs_by_provider_slug, tbody, stdout,
                   searches, cursor, world>>

\* The script is run again for the same slug, after a run that ended in any way.
RunAgain ==
    /\ pc \in {"done", "failed", "returned", "usage_error"}
    /\ cursor.run < MaxRuns
    /\ cursor' = [run |-> cursor.run + 1, exits |-> Append(cursor.exits, pc)]
    /\ pc' = "start"
    /\ error' = "none"
    /\ last' = NoCall
    /\ UNCHANGED <<args, fetchers_projects, pipeline_schedule_by_fetcher_id, jobs_by_fetcher_id,
                   importer_jobs_with_variables, index_jobs_by_provider_slug, tbody, stdout,
                   log, searches, world, gitlab>>

NextCreate ==
    \/ CreateStart
    \/ CreateFetcherRepository
    \/ CreateSourceDataRepository
    \/ CreateJsonDataRepository
    \/ RunAgain

SpecCreate == InitCreate /\ [][NextCreate]_vars

\* A run of the script has returned 0.
Succeeded == pc = "done" \/ \E k \in 1..Len(cursor.exits) : cursor.exits[k] = "done"

\* The number of times a repository of the name was created.
NbCreated(name) ==
    Cardinality({k \in 1..Len(gitlab.creates) :
                     gitlab.creates[k].created /\ gitlab.creates[k].call.name = name})

\* C24: however many times the script is run for a slug, it creates each of
\* <slug>-fetcher, <slug>-source-data and <slug>-json-data at most once, and asks GitLab
\* to create nothing else; and once a run has returned 0, no step of a later run makes a
\* create call or changes the set of repositories.
C24_CreateIsIdempotent ==
    /\ [](\A k \in 1..Len(gitlab.creates) :
              /\ gitlab.creates[k].call.name
                     \in {args.provider_slug \o <<"-","f","e","t","c","h","e","r">>,
                          args.provider_slug \o <<"-","s","o","u","r","c","e","-","d","a","t","a">>,
                          args.provider_slug \o <<"-","j","s","o","n","-","d","a","t","a">>}
              /\ NbCreated(gitlab.creates[k].call.name) <= 1)
    /\ [][Succeeded => /\ gitlab'.creates = gitlab.creates
                       /\ gitlab'.projects = gitlab.projects]_vars

\* C24 witness: a second run has returned 0 after a first run that returned 0 and had
\* created the three repositories, and the create calls are still three.
C24_Witness ==
    /\ pc = "done"
    /\ cursor.run = 2
    /\ cursor.exits = <<"done">>
    /\ Len(gitlab.creates) = 3
    /\ Cardinality(gitlab.projects) = 3

(***************************************************************************)
(* ls-providers.py.                                                        *)
(***************************************************************************)
GENERATED_OBJECTS_TAG == <<"C","I"," ","j","o","b","s">>

\* str.replace(old, ""): the text without the occurrences of old, read from position
\* from on, left to right.
RECURSIVE RemoveFrom(_, _, _)
RemoveFrom(text, old, from) ==
    IF from > Len(text) THEN <<>>
    ELSE IF from + Len(old) - 1 <= Len(text) /\ SubSeq(text, from, from + Len(old) - 1) = old
    THEN RemoveFrom(text, old, from + Len(old))
    ELSE <<text[from]>> \o RemoveFrom(text, old, from + 1)

\* name.replace("-fetcher", "")
ProviderSlugOf(name) == RemoveFrom(name, FetcherSuffix, 1)

\* A variant of iter_scheduled_fetcher_projects without the break: the project is yielded
\* for each schedule that qualifies.
iter_scheduled_fetcher_projects_no_break(fetcher_project, pipeline_schedules) ==
    LET provider_slug == ProviderSlugOf(fetcher_project.name)
        qualifying == SelectSeq(pipeline_schedules,
                                LAMBDA pipeline_schedule :
                                    /\ pipeline_schedule.description
                                           = provider_slug \o <<" ">> \o GENERATED_OBJECTS_TAG
                                    /\ pipeline_schedule.active)
    IN [k \in 1..Len(qualifying) |-> fetcher_project]

\* One turn of the outer loop of iter_scheduled_fetcher_projects: what the generator
\* yields for a project whose schedules are listed.
iter_scheduled_fetcher_projects(fetcher_project, pipeline_schedules) ==
    LET provider_slug == ProviderSlugOf(fetcher_project.name)
    IN IF \E k \in 1..Len(pipeline_schedules) :
              /\ pipeline_schedules[k].description
                     = provider_slug \o <<" ">> \o GENERATED_OBJECTS_TAG
              /\ pipeline_schedules[k].active
       THEN <<fetcher_project>>
       ELSE <<>>

\* The body of the loop of main() for the projects of a list: the lines printed.
RECURSIVE PrintedFor(_)
PrintedFor(projects) ==
    IF projects = <<>> THEN <<>>
    ELSE LET fetcher_project == Head(projects)
         IN (IF ~EndsWith(fetcher_project.name, FetcherSuffix) THEN <<>>
             ELSE IF StartsWith(fetcher_project.name, DummyPrefix) THEN <<>>
             ELSE <<ProviderSlugOf(fetcher_project.name)>>)
            \o PrintedFor(Tail(projects))

\* The descriptions the schedules of a project may have: the one the CI configuration
\* generates for a fetcher, and the name of the project followed by the tag.
LsDescriptions(project) ==
    {(IF EndsWith(project.name, FetcherSuffix) THEN SlugOfName(project.name)
      ELSE project.name) \o <<" ">> \o GENERATED_OBJECTS_TAG,
     project.name \o <<" ">> \o GENERATED_OBJECTS_TAG}

\* What fetcher_project.pipelineschedules.list() may return.
LsScheduleLists(project) ==
    UNION {[1..n -> [description : LsDescriptions(project), active : BOOLEAN]]
           : n \in 0..MaxSchedules}

\* The command line is parsed: --only-scheduled is given or not.
InitLs ==
    /\ world = "ls_providers"
    /\ pc = "start"
    /\ args \in [only_scheduled : BOOLEAN]
    /\ fetchers_projects = <<>>
    /\ pipeline_schedule_by_fetcher_id = EmptyDict
    /\ jobs_by_fetcher_id = EmptyDict
    /\ importer_jobs_with_variables = <<>>
    /\ index_jobs_by_provider_slug = EmptyDict
    /\ tbody = <<>>
    /\ stdout = <<>>
    /\ error = "none"
    /\ log = <<>>
    /\ searches = <<>>
    /\ cursor = IdleCursor
    /\ last = NoCall
    /\ gitlab = Untouched

\* main() up to its loop: the group is fetched and its projects are listed by name.
LsList ==
    /\ pc = "start"
    /\ \/ /\ Abort("GitlabGetError")
          /\ last' = NoCall
          /\ UNCHANGED <<fetchers_projects, cursor>>
       \/ \E stored \in GroupStorages :
             /\ fetchers_projects' = ProjectsList(stored)
             /\ last' = [fn |-> "projects.list", arg |-> stored, ret |-> ProjectsList(stored)]
             /\ pc' = "ls_loop"
             /\ cursor' = [cursor EXCEPT !.i = 1]
             /\ UNCHANGED error
    /\ UNCHANGED <<log, searches, args, pipeline_schedule_by_fetcher_id, jobs_by_fetcher_id,
                   importer_jobs_with_variables, index_jobs_by_provider_slug, tbody, stdout,
                   world, gitlab>>

\* With --only-scheduled, the generator takes the next project of the listing, lists its
\* schedules and the loop of main() runs for what the generator yields.
LsScheduledProject ==
    /\ pc = "ls_loop"
    /\ args.only_scheduled
    /\ cursor.i <= Len(fetchers_projects)
    /\ \E pipeline_schedules \in LsScheduleLists(fetchers_projects[cursor.i]) :
          /\ last' = [fn |-> "pipelineschedules.list", arg |-> fetchers_projects[cursor.i],
                      ret |-> pipeline_schedules]
          /\ stdout' = stdout \o PrintedFor(iter_scheduled_fetcher_projects(
                                                fetchers_projects[cursor.i], pipeline_schedules))
    /\ cursor' = [cursor EXCEPT !.i = @ + 1]
    /\ UNCHANGED <<pc, log, searches, args, fetchers_projects, pipeline_schedule_by_fetcher_id,
                   jobs_by_fetcher_id, importer_jobs_with_variables,
                   index_jobs_by_provider_slug, tbody, error, world, gitlab>>

\* Without --only-scheduled, the loop of main() runs for the next project of the listing.
LsProject ==
    /\ pc = "ls_loop"
    /\ ~args.only_scheduled
    /\ cursor.i <= Len(fetchers_projects)
    /\ last' = [fn |-> "print", arg |-> fetchers_projects[cursor.i]]
    /\ stdout' = stdout \o PrintedFor(<<fetchers_projects[cursor.i]>>)
    /\ cursor' = [cursor EXCEPT !.i = @ + 1]
    /\ UNCHANGED <<pc, log, searches, args, fetchers_projects, pipeline_schedule_by_fetcher_id,
                   jobs_by_fetcher_id, importer_jobs_with_variables,
                   index_jobs_by_provider_slug, tbody, error, world, gitlab>>

\* The listing is exhausted: main() returns 0.
LsReturn ==
    /\ pc = "ls_loop"
    /\ cursor.i > Len(fetchers_projects)
    /\ pc' = "done"
    /\ last' = NoCall
    /\ UNCHANGED <<log, searches, args, fetchers_projects, pipeline_schedule_by_fetcher_id,
                   jobs_by_fetcher_id, importer_jobs_with_variables,
                   index_jobs_by_provider_slug, tbody, stdout, error, cursor, world, gitlab>>

NextLs ==
    \/ LsList
    \/ LsScheduledProject
    \/ LsProject
    \/ LsReturn

SpecLs == InitLs /\ [][NextLs]_vars

\* The name of a project of the listing passes the filters of names, and its slug.
PassesNameFilters(name) ==
    /\ Len(name) >= 8
    /\ SubSeq(name, Len(name) - 7, Len(name)) = <<"-","f","e","t","c","h","e","r">>
    /\ ~(Len(name) >= 5 /\ SubSeq(name, 1, 5) = <<"d","u","m","m","y">>)
SlugOfFetcher(name) == SubSeq(name, 1, Len(name) - 8)

\* One of the schedules is active and is described as '<slug> CI jobs'.
HasActiveGeneratedSchedule(name, schedules) ==
    \E k \in 1..Len(schedules) :
        /\ schedules[k].active
        /\ schedules[k].description
               = SlugOfFetcher(name) \o <<" ","C","I"," ","j","o","b","s">>

\* The slugs of the projects of the listing before position i that pass the name filters,
\* in the order of the listing.
RECURSIVE FilteredSlugs(_, _)
FilteredSlugs(projects, i) ==
    IF i <= 1 THEN <<>>
    ELSE FilteredSlugs(projects, i - 1)
         \o (IF PassesNameFilters(projects[i - 1].name)
             THEN <<SlugOfFetcher(projects[i - 1].name)>> ELSE <<>>)

\* C26: with --only-scheduled, the step of a project prints its slug, once, exactly when
\* the name of the project passes the two name filters and the project has at least one
\* active schedule described as '<slug> CI jobs', and prints nothing otherwise; so the
\* lines printed are, in the order of the listing and without repetition, some of the
\* slugs of the projects seen that pass the name filters; without the flag they are all
\* of them, whatever the schedules.
C26_OnlyScheduled ==
    /\ [][last'.fn = "pipelineschedules.list" =>
              stdout' = IF /\ PassesNameFilters(last'.arg.name)
                           /\ HasActiveGeneratedSchedule(last'.arg.name, last'.ret)
                        THEN Append(stdout, SlugOfFetcher(last'.arg.name))
                        ELSE stdout]_vars
    /\ [](pc \in {"ls_loop", "done"} =>
              LET seen == FilteredSlugs(fetchers_projects, cursor.i)
              IN /\ \A j, k \in 1..Len(stdout) :
                        j < k => \E m, n \in 1..Len(seen) :
                                     m < n /\ seen[m] = stdout[j] /\ seen[n] = stdout[k]
                 /\ \A j \in 1..Len(stdout) : \E m \in 1..Len(seen) : seen[m] = stdout[j]
                 /\ \A j, k \in 1..Len(stdout) : j # k => stdout[j] # stdout[k]
                 /\ ~args.only_scheduled => stdout = seen)

\* C26 witness: with --only-scheduled, the last project of a listing of five has two
\* qualifying schedules and its slug was printed once, after the slug of the first
\* project; the slug of another fetcher, seen between them, was not printed.
C26_Witness ==
    /\ args.only_scheduled
    /\ Len(fetchers_projects) = 5
    /\ cursor.i = 6
    /\ last.fn = "pipelineschedules.list"
    /\ last.arg.name = <<"x","-","f","e","t","c","h","e","r">>
    /\ Len(last.ret) = 2
    /\ \A k \in 1..2 : HasActiveGeneratedSchedule(last.arg.name, <<last.ret[k]>>)
    /\ stdout = <<Bis, <<"x">>>>

(***************************************************************************)
(* trigger-job-for-provider.py and trigger-download-job-for-provider.py.   *)
(***************************************************************************)
\* Number of triggers a project has.
MaxTriggers == 2

DataModelProject ==
    <<"d","b","n","o","m","i","c","s","-","d","a","t","a","-","m","o","d","e","l">>

\* The projects a pipeline may be triggered on, for the provider bis.
TriggerTargets == {Bis \o FetcherSuffix, DataModelProject, ImporterProject.name}

\* The triggers a project may have: their tokens.
TriggerLists == {[k \in 1..n |-> [token |-> k]] : n \in 0..MaxTriggers}

\* The command lines of the two scripts: the second has neither job name nor --ref, and
\* triggers the download job on master.
TriggerArgs ==
    [script : {"trigger-job-for-provider"},
     job_name : {"download", "convert", "index", "validate"},
     provider_slug : {Bis},
     ref : {"master", "dev"}]
    \cup [script : {"trigger-download-job-for-provider"}, job_name : {"download"},
          provider_slug : {Bis}, ref : {"master"}]

InitTrigger ==
    /\ world = "trigger"
    /\ pc = "start"
    /\ args \in TriggerArgs
    /\ gitlab \in [namespaces : {{}}, projects : {{}}, triggers : [TriggerTargets -> TriggerLists],
                   creates : {<<>>}, pipelines : {<<>>}]
    /\ fetchers_projects = <<>>
    /\ pipeline_schedule_by_fetcher_id = EmptyDict
    /\ jobs_by_fetcher_id = EmptyDict
    /\ importer_jobs_with_variables = <<>>
    /\ index_jobs_by_provider_slug = EmptyDict
    /\ tbody = <<>>
    /\ stdout = <<>>
    /\ error = "none"
    /\ log = <<>>
    /\ searches = <<>>
    /\ cursor = IdleCursor
    /\ last = NoCall

\* main() of trigger-job-for-provider up to the login: without token it returns 1.
TriggerStart ==
    /\ pc = "start"
    /\ args.script = "trigger-job-for-provider"
    /\ \/ /\ pc' = "returned"
          /\ log' = Append(log, [level |-> "error", message |-> "Please set PRIVATE_TOKEN"])
          /\ UNCHANGED error
       \/ /\ Abort("GitlabAuthenticationError")
          /\ UNCHANGED log
       \/ /\ pc' = "logged_in"
          /\ UNCHANGED <<log, error>>
    /\ last' = NoCall
    /\ UNCHANGED <<args, fetchers_projects, pipeline_schedule_by_fetcher_id, jobs_by_fetcher_id,
                   importer_jobs_with_variables, index_jobs_by_provider_slug, tbody, stdout,
                   searches, cursor, world, gitlab>>

\* A variant of TriggerOn that takes the first trigger of a project that has several.
TriggerOn_first_trigger(project_name, pipeline_variables) ==
    LET triggers == gitlab.triggers[project_name]
    IN /\ last' = [fn |-> "triggers.list", arg |-> project_name, ret |-> triggers]
       /\ IF Len(triggers) = 0
          THEN /\ pc' = "returned"
               /\ log' = Append(log, [level |-> "error",
                                      message |-> "Project should have one trigger"])
               /\ UNCHANGED <<gitlab, stdout>>
          ELSE /\ gitlab' = [gitlab EXCEPT !.pipelines =
                                 Append(@, [project |-> project_name, ref |-> args.ref,
                                            token |-> triggers[1].token,
                                            variables |-> pipeline_variables])]
               /\ stdout' = Append(stdout, <<"Check job: ", project_name>>)
               /\ pc' = "done"
               /\ UNCHANGED log

\* A branch of main() once the project is fetched: its triggers are listed; unless there
\* is exactly one, an error is logged and main() returns 1; else a pipeline is triggered
\* on the ref with the token of the trigger and the variables, the page of the jobs is
\* printed and main() returns 0.
TriggerOn(project_name, pipeline_variables) ==
    LET triggers == gitlab.triggers[project_name]
    IN /\ last' = [fn |-> "triggers.list", arg |-> project_name, ret |-> triggers]
       /\ IF Len(triggers) # 1
          THEN /\ pc' = "returned"
               /\ log' = Append(log, [level |-> "error",
                                      message |-> "Project should have one trigger"])
               /\ UNCHANGED <<gitlab, stdout>>
          ELSE /\ gitlab' = [gitlab EXCEPT !.pipelines =
                                 Append(@, [project |-> project_name, ref |-> args.ref,
                                            token |-> triggers[1].token,
                                            variables |-> pipeline_variables])]
               /\ stdout' = Append(stdout, <<"Check job: ", project_name>>)
               /\ pc' = "done"
               /\ UNCHANGED log

\* gl.projects.get or the trigger call fails: nothing is triggered.
TriggerFails ==
    /\ \E exception \in {"GitlabGetError", "GitlabCreateError"} : Abort(exception)
    /\ last' = NoCall
    /\ UNCHANGED <<gitlab, stdout, log>>

\* The branch of the jobs download and convert: the fetcher of the provider.
TriggerFetcherJob ==
    /\ pc = "logged_in"
    /\ args.job_name \in {"download", "convert"}
    /\ \/ TriggerFails
       \/ /\ TriggerOn(args.provider_slug \o FetcherSuffix, [JOB |-> args.job_name])
          /\ UNCHANGED error
    /\ UNCHANGED <<args, fetchers_projects, pipeline_schedule_by_fetcher_id, jobs_by_fetcher_id,
                   importer_jobs_with_variables, index_jobs_by_provider_slug, tbody,
                   searches, cursor, world>>

\* The branch of the job validate: the data model project.
TriggerValidateJob ==
    /\ pc = "logged_in"
    /\ args.job_name = "validate"
    /\ \/ TriggerFails
       \/ /\ TriggerOn(DataModelProject, [PROVIDER_SLUG |-> args.provider_slug])
          /\ UNCHANGED error
    /\ UNCHANGED <<args, fetchers_projects, pipeline_schedule_by_fetcher_id, jobs_by_fetcher_id,
                   importer_jobs_with_variables, index_jobs_by_provider_slug, tbody,
                   searches, cursor, world>>

\* The branch of the job index: the importer project.
TriggerIndexJob ==
    /\ pc = "logged_in"
    /\ args.job_name \notin {"download", "convert", "validate"}
    /\ \/ TriggerFails
       \/ /\ TriggerOn(ImporterProject.name, [PROVIDER_SLUG |-> args.provider_slug])
          /\ UNCHANGED error
    /\ UNCHANGED <<args, fetchers_projects, pipeline_schedule_by_fetcher_id, jobs_by_fetcher_id,
                   importer_jobs_with_variables, index_jobs_by_provider_slug, tbody,
                   searches, cursor, world>>

\* main() of trigger-download-job-for-provider: the fetcher is searched by name and must
\* be the only project found; then as the branch of download, on master.
TriggerDownloadJob ==
    /\ pc = "start"
    /\ args.script = "trigger-download-job-for-provider"
    /\ \/ /\ \E exception \in {"AssertionError", "HTTPError"} : Abort(exception)
          /\ last' = NoCall
          /\ UNCHANGED <<gitlab, stdout, log>>
       \/ /\ TriggerOn(args.provider_slug \o FetcherSuffix, [JOB |-> "download"])
          /\ UNCHANGED error
    /\ UNCHANGED <<args, fetchers_projects, pipeline_schedule_by_fetcher_id, jobs_by_fetcher_id,
                   importer_jobs_with_variables, index_jobs_by_provider_slug, tbody,
                   searches, cursor, world>>

NextTrigger ==
    \/ TriggerStart
    \/ TriggerFetcherJob
    \/ TriggerValidateJob
    \/ TriggerIndexJob
    \/ TriggerDownloadJob

SpecTrigger == InitTrigger /\ [][NextTrigger]_vars

\* The project the job of the command line runs on, and the variable its pipeline takes.
TargetOf(job_name, slug) ==
    CASE job_name \in {"download", "convert"} -> slug \o <<"-","f","e","t","c","h","e","r">>
      [] job_name = "validate" ->
             <<"d","b","n","o","m","i","c","s","-","d","a","t","a","-","m","o","d","e","l">>
      [] job_name = "index" ->
             <<"d","b","n","o","m","i","c","s","-","i","m","p","o","r","t","e","r">>
VariablesOf(job_name, slug) ==
    IF job_name \in {"download", "convert"} THEN [JOB |-> job_name]
    ELSE [PROVIDER_SLUG |-> slug]

\* C27: a pipeline is triggered only when the target project of the job (the fetcher for
\* download and convert, the data model for validate, the importer for index) has exactly
\* one trigger. A run that lists the triggers of its target and finds none or several
\* returns 1 and triggers no pipeline on any project; one that finds exactly one triggers
\* exactly one pipeline, on the target, on the requested ref, with the token of the
\* trigger and the variable JOB=<job name> (download, convert) or PROVIDER_SLUG=<slug>
\* (validate, index), and returns 0.
C27_ExactlyOneTrigger ==
    LET target == TargetOf(args.job_name, args.provider_slug)
    IN /\ Len(gitlab.pipelines) <= 1
       /\ gitlab.pipelines # <<>> =>
              /\ Len(gitlab.triggers[target]) = 1
              /\ gitlab.pipelines[1] =
                     [project |-> target, ref |-> args.ref,
                      token |-> gitlab.triggers[target][1].token,
                      variables |-> VariablesOf(args.job_name, args.provider_slug)]
              /\ pc = "done"
       /\ last.fn = "triggers.list" =>
              /\ last.arg = target
              /\ last.ret = gitlab.triggers[target]
              /\ IF Len(last.ret) = 1
                 THEN pc = "done" /\ Len(gitlab.pipelines) = 1
                 ELSE /\ pc = "returned"
                      /\ gitlab.pipelines = <<>>
                      /\ log # <<>>
       /\ pc = "returned" => gitlab.pipelines = <<>>
       /\ pc = "done" => Len(gitlab.pipelines) = 1

\* C27 witness: the job index was asked on the ref dev; the importer has exactly one
\* trigger, while the fetcher has two; one pipeline was triggered on the importer.
C27_Witness ==
    /\ pc = "done"
    /\ args.job_name = "index"
    /\ args.ref = "dev"
    /\ Len(gitlab.triggers[Bis \o FetcherSuffix]) = 2
    /\ Len(gitlab.pipelines) = 1
    /\ gitlab.pipelines[1].project = ImporterProject.name
    /\ gitlab.pipelines[1].ref = "dev"
    /\ gitlab.pipelines[1].variables = [PROVIDER_SLUG |-> Bis]

====
